---- MODULE Spec2Model ----
(***************************************************************************)
(* Model of the analyze-business edge function: request validation, the    *)
(* AI-response sanitizer, the deterministic scoring engine (the GBDT       *)
(* variant of supabase/functions/analyze-business/index.ts and the         *)
(* weighted-average variant of an earlier revision) and the request        *)
(* handler that strings them together.                                     *)
(*                                                                         *)
(* Numbers are JavaScript numbers modelled as exact extended rationals     *)
(* (finite n/d, +Infinity, -Infinity, NaN); IEEE-754 rounding error is not *)
(* modelled.  Strings are sequences of one-character strings.              *)
(***************************************************************************)
EXTENDS Integers, Sequences, FiniteSets, Bags, TLC

VARIABLES
  pc,        \* position of the handler / of the pure-function harness
  req,       \* the incoming request
  env,       \* outcomes of the external collaborators for this request
  valid,     \* result of validateInput (or NoValue)
  raw,       \* parsed, unsanitized Pass-1 completion (or NoValue)
  pass1,     \* sanitized Pass-1 payload (or NoValue)
  scoring,   \* ScoringResult of pass2_score (or NoValue)
  expl,      \* sanitized Pass-3 explanations (or NoValue)
  response,  \* the HTTP response (or NoValue)
  calls,     \* how often each collaborator / pass was invoked
  sIn,       \* string harnesses: the input string
  sOut,      \* string harnesses: the outputs of the function under study
  again,     \* scoring harness: result of a second invocation of pass2_score
  yearly,    \* scoring harness: result of generateYearlyWithMonths
  inFlight,  \* the external calls of fetchRealTimeData in flight
  realTimeData,  \* result of fetchRealTimeData (or NoValue)
  suspended  \* the locals of a second request waiting at an await (or NoValue)

vars == <<pc, req, env, valid, raw, pass1, scoring, expl, response, calls, sIn, sOut,
          again, yearly, inFlight, realTimeData, suspended>>

NoValue == [none |-> TRUE]

\* The value of the last of a sequence of statements, which are evaluated in
\* the order in which they are written.
InOrder(statements) == statements[Len(statements)]

(***************************************************************************)
(* JavaScript numbers                                                      *)
(***************************************************************************)
Abs(i) == IF i < 0 THEN -i ELSE i

RECURSIVE Gcd(_, _)
Gcd(a, b) == IF b = 0 THEN a ELSE Gcd(b, a % b)

\* A finite number n/d in lowest terms with d > 0.
Fin(n, d) ==
  [k |-> "fin",
   n |-> ((IF d < 0 THEN -1 ELSE 1) * n) \div Gcd(Abs(n), Abs(d)),
   d |-> Abs(d) \div Gcd(Abs(n), Abs(d))]

Num(i) == [k |-> "fin", n |-> i, d |-> 1]
PosInf == [k |-> "inf", n |-> 1, d |-> 1]
NegInf == [k |-> "inf", n |-> -1, d |-> 1]
NaN    == [k |-> "nan", n |-> 0, d |-> 1]

IsNaN(a)    == a.k = "nan"
IsFinite(a) == a.k = "fin"
IsInteger(a) == a.k = "fin" /\ a.d = 1
Sign(a) == IF a.n > 0 THEN 1 ELSE IF a.n < 0 THEN -1 ELSE 0

JNeg(a) == [a EXCEPT !.n = -a.n]

JAdd(a, b) ==
  CASE IsNaN(a) \/ IsNaN(b)          -> NaN
    [] a.k = "inf" /\ b.k = "inf"    -> (IF a.n = b.n THEN a ELSE NaN)
    [] a.k = "inf" /\ b.k = "fin"    -> a
    [] a.k = "fin" /\ b.k = "inf"    -> b
    [] a.k = "fin" /\ b.k = "fin"    ->
         Fin(a.n * (b.d \div Gcd(a.d, b.d)) + b.n * (a.d \div Gcd(a.d, b.d)),
             (a.d \div Gcd(a.d, b.d)) * b.d)

JSub(a, b) == JAdd(a, JNeg(b))

JMul(a, b) ==
  CASE IsNaN(a) \/ IsNaN(b)                                       -> NaN
    [] ~IsNaN(a) /\ ~IsNaN(b) /\ (a.k = "inf" \/ b.k = "inf")     ->
         (IF Sign(a) * Sign(b) = 0 THEN NaN
          ELSE IF Sign(a) * Sign(b) > 0 THEN PosInf ELSE NegInf)
    [] a.k = "fin" /\ b.k = "fin"                                  ->
         Fin((a.n \div Gcd(Abs(a.n), b.d)) * (b.n \div Gcd(Abs(b.n), a.d)),
             (a.d \div Gcd(Abs(b.n), a.d)) * (b.d \div Gcd(Abs(a.n), b.d)))

\* a / b; a zero divisor is +0 (no negative zero is modelled).
JDiv(a, b) ==
  CASE IsNaN(a) \/ IsNaN(b)                     -> NaN
    [] ~IsNaN(a) /\ b.k = "inf"                  -> (IF a.k = "inf" THEN NaN ELSE Num(0))
    [] ~IsNaN(a) /\ b.k = "fin" /\ b.n = 0       ->
         (IF Sign(a) = 0 THEN NaN ELSE IF Sign(a) > 0 THEN PosInf ELSE NegInf)
    [] a.k = "inf" /\ b.k = "fin" /\ b.n # 0     ->
         (IF Sign(a) * Sign(b) > 0 THEN PosInf ELSE NegInf)
    [] a.k = "fin" /\ b.k = "fin" /\ b.n # 0     -> JMul(a, Fin(b.d, b.n))

\* a < b; every comparison with NaN is false.
JLt(a, b) ==
  CASE IsNaN(a) \/ IsNaN(b)                  -> FALSE
    [] a.k = "inf" /\ ~IsNaN(b)              -> a.n < 0 /\ ~(b.k = "inf" /\ b.n < 0)
    [] a.k = "fin" /\ b.k = "inf"            -> b.n > 0
    [] a.k = "fin" /\ b.k = "fin"            ->
         a.n * (b.d \div Gcd(a.d, b.d)) < b.n * (a.d \div Gcd(a.d, b.d))

JEq(a, b) == ~IsNaN(a) /\ ~IsNaN(b) /\ a = b
JLe(a, b) == JLt(a, b) \/ JEq(a, b)
JGt(a, b) == JLt(b, a)
JGe(a, b) == JLe(b, a)

\* Math.min / Math.max: NaN if either argument is NaN.
JMin(a, b) == IF IsNaN(a) \/ IsNaN(b) THEN NaN ELSE IF JLt(b, a) THEN b ELSE a
JMax(a, b) == IF IsNaN(a) \/ IsNaN(b) THEN NaN ELSE IF JLt(a, b) THEN b ELSE a

JFloor(a) == IF a.k = "fin" THEN Num(a.n \div a.d) ELSE a
JCeil(a)  == IF a.k = "fin" THEN Num(-((-a.n) \div a.d)) ELSE a
\* Math.round: the nearest integer, a tie going up.
JRound(a) == IF a.k = "fin" THEN JFloor(JAdd(a, Fin(1, 2))) ELSE a
JAbs(a)   == [a EXCEPT !.n = Abs(a.n)]

\* x || y on numbers: 0 and NaN are falsy.
Truthy(a)  == ~IsNaN(a) /\ a.n # 0
JOr(a, b)  == IF Truthy(a) THEN a ELSE b

(***************************************************************************)
(* Strings: sequences of one-character strings                             *)
(***************************************************************************)
UpperLetters == <<"A","B","C","D","E","F","G","H","I","J","K","L","M",
                  "N","O","P","Q","R","S","T","U","V","W","X","Y","Z">>
LowerLetters == <<"a","b","c","d","e","f","g","h","i","j","k","l","m",
                  "n","o","p","q","r","s","t","u","v","w","x","y","z">>
Digits == <<"0","1","2","3","4","5","6","7","8","9">>

Range(f) == {f[i] : i \in DOMAIN f}

toLowerChar(c) ==
  IF c \in Range(UpperLetters)
  THEN LowerLetters[CHOOSE i \in DOMAIN UpperLetters : UpperLetters[i] = c]
  ELSE c

toLowerCase(s) == [i \in DOMAIN s |-> toLowerChar(s[i])]

IsDigit(c) == c \in Range(Digits)
DigitVal(c) == (CHOOSE i \in DOMAIN Digits : Digits[i] = c) - 1
IsSpace(c) == c \in {" ", "\t", "\n", "\r"}
IsWordChar(c) == c \in Range(UpperLetters) \cup Range(LowerLetters) \cup Range(Digits) \cup {"_"}

\* s.slice(0, n)
Slice(s, n) == SubSeq(s, 1, IF Len(s) < n THEN Len(s) ELSE n)
\* the rest of s from position i on
From(s, i) == SubSeq(s, i, Len(s))

\* does pat occur in s at position i
MatchAt(s, i, pat) ==
  i + Len(pat) - 1 <= Len(s) /\ \A j \in 1..Len(pat) : s[i + j - 1] = pat[j]

\* does pat, written in lower case, occur in s at position i in any letter
\* case (the i flag)
MatchAtAnyCase(s, i, pat) ==
  i + Len(pat) - 1 <= Len(s) /\ \A j \in 1..Len(pat) : toLowerChar(s[i + j - 1]) = pat[j]

Includes(s, pat) == \E i \in 1..(Len(s) + 1) : MatchAt(s, i, pat)
EndsWith(s, pat) == Len(s) >= Len(pat) /\ MatchAt(s, Len(s) - Len(pat) + 1, pat)

\* first position >= i of s that holds no whitespace
SkipSpaces(s, i) ==
  IF i > Len(s) THEN i
  ELSE CHOOSE j \in i..(Len(s) + 1) :
         /\ j = Len(s) + 1 \/ ~IsSpace(s[j])
         /\ \A m \in i..(j - 1) : IsSpace(s[m])

\* first position >= i of s that holds no word character
SkipWord(s, i) ==
  IF i > Len(s) THEN i
  ELSE CHOOSE j \in i..(Len(s) + 1) :
         /\ j = Len(s) + 1 \/ ~IsWordChar(s[j])
         /\ \A m \in i..(j - 1) : IsWordChar(s[m])

\* s without its trailing whitespace
TrimEnd(s) ==
  SubSeq(s, 1, CHOOSE j \in 0..Len(s) :
                 /\ j = 0 \/ ~IsSpace(s[j])
                 /\ \A m \in (j + 1)..Len(s) : IsSpace(s[m]))

\* String.prototype.trim
\* the string as it is
TrimNothing(s) == s

Trim(s) == TrimEnd(From(s, SkipSpaces(s, 1)))

(***************************************************************************)
(* SANITIZATION: sanitizeString and the regular expressions it applies     *)
(***************************************************************************)
MaxStringLen == 5000

PatJavascript == <<"j","a","v","a","s","c","r","i","p","t",":">>
PatData       == <<"d","a","t","a",":">>
PatTextHtml   == <<"t","e","x","t","/","h","t","m","l">>
PatEntity     == <<"&","#">>

\* /<[^>]*>/ at position i: the position after the match, 0 when there is none.
TagEnd(s, i) ==
  IF i <= Len(s) /\ s[i] = "<" /\ (\E j \in (i + 1)..Len(s) : s[j] = ">")
  THEN 1 + CHOOSE j \in (i + 1)..Len(s) :
             s[j] = ">" /\ \A m \in (i + 1)..(j - 1) : s[m] # ">"
  ELSE 0

\* /javascript:/i at position i
JavascriptEnd(s, i) ==
  IF MatchAtAnyCase(s, i, PatJavascript) THEN i + Len(PatJavascript) ELSE 0

\* /on\w+\s*=/i at position i.  \w+ and \s* are greedy; giving characters
\* back cannot help, since a word character is neither whitespace nor '='.
HandlerEnd(s, i) ==
  IF MatchAtAnyCase(s, i, <<"o","n">>)
  THEN LET w == SkipWord(s, i + 2)
           e == SkipSpaces(s, w)
       IN  IF w > i + 2 /\ e <= Len(s) /\ s[e] = "=" THEN e + 1 ELSE 0
  ELSE 0

\* /data:\s*text\/html/i at position i
DataUriEnd(s, i) ==
  IF MatchAtAnyCase(s, i, PatData)
  THEN LET e == SkipSpaces(s, i + Len(PatData))
       IN  IF MatchAtAnyCase(s, e, PatTextHtml) THEN e + Len(PatTextHtml) ELSE 0
  ELSE 0

\* /&#/ at position i
EntityEnd(s, i) == IF MatchAt(s, i, PatEntity) THEN i + Len(PatEntity) ELSE 0

\* the first position >= i at which the pattern matches, 0 when there is none;
\* ends[j] is the position after the match at j, 0 when there is none
FirstMatch(ends, i) ==
  IF \E j \in i..Len(ends) : ends[j] > 0
  THEN CHOOSE j \in i..Len(ends) : ends[j] > 0 /\ \A m \in i..(j - 1) : ends[m] = 0
  ELSE 0

RECURSIVE RemoveFrom(_, _, _)
\* one left-to-right pass over s from position i on that drops every match
\* and resumes after it
RemoveFrom(ends, s, i) ==
  IF FirstMatch(ends, i) = 0 THEN SubSeq(s, i, Len(s))
  ELSE SubSeq(s, i, FirstMatch(ends, i) - 1) \o RemoveFrom(ends, s, ends[FirstMatch(ends, i)])

\* s.replace(/re/g, ''), ends[j] being the position after the match of re at
\* position j of s
RemoveAll(ends, s) == RemoveFrom(ends, s, 1)

StripTags(s)       == RemoveAll([j \in 1..Len(s) |-> TagEnd(s, j)], s)
StripJavascript(s) == RemoveAll([j \in 1..Len(s) |-> JavascriptEnd(s, j)], s)
StripHandlers(s)   == RemoveAll([j \in 1..Len(s) |-> HandlerEnd(s, j)], s)
StripDataUri(s)    == RemoveAll([j \in 1..Len(s) |-> DataUriEnd(s, j)], s)
StripEntity(s)     == RemoveAll([j \in 1..Len(s) |-> EntityEnd(s, j)], s)

\* sanitizeString on a string argument
sanitizeString(str) ==
  Slice(Trim(StripEntity(StripDataUri(StripHandlers(StripJavascript(StripTags(str)))))),
        MaxStringLen)

\* the patterns sanitizeString strips, as occurrences anywhere in s
HasTag(s)        == \E i \in 1..Len(s) : TagEnd(s, i) > 0
HasJavascript(s) == \E i \in 1..Len(s) : JavascriptEnd(s, i) > 0
HasHandler(s)    == \E i \in 1..Len(s) : HandlerEnd(s, i) > 0
HasDataUri(s)    == \E i \in 1..Len(s) : DataUriEnd(s, i) > 0
HasEntity(s)     == \E i \in 1..Len(s) : EntityEnd(s, i) > 0

(***************************************************************************)
(* JavaScript values as they come out of JSON.parse, and their coercions   *)
(***************************************************************************)
JNum(x)  == [t |-> "number",    num |-> x,      str |-> <<>>, bool |-> FALSE]
JStr(x)  == [t |-> "string",    num |-> NaN,    str |-> x,    bool |-> FALSE]
JBool(x) == [t |-> "boolean",   num |-> NaN,    str |-> <<>>, bool |-> x]
JUndef   == [t |-> "undefined", num |-> NaN,    str |-> <<>>, bool |-> FALSE]
JNull    == [t |-> "null",      num |-> NaN,    str |-> <<>>, bool |-> FALSE]
JObject  == [t |-> "object",    num |-> NaN,    str |-> <<>>, bool |-> FALSE]

\* first position >= i of s that holds no decimal digit
SkipDigits(s, i) ==
  IF i > Len(s) THEN i
  ELSE CHOOSE j \in i..(Len(s) + 1) :
         /\ j = Len(s) + 1 \/ ~IsDigit(s[j])
         /\ \A m \in i..(j - 1) : IsDigit(s[m])

RECURSIVE DigitsValue(_, _, _)
\* the natural number written by the digits s[i..j-1]
DigitsValue(s, i, j) ==
  IF j <= i THEN 0 ELSE 10 * DigitsValue(s, i, j - 1) + DigitVal(s[j - 1])

RECURSIVE Pow10(_)
Pow10(e) == IF e = 0 THEN 1 ELSE 10 * Pow10(e - 1)

\* The longest prefix of s from position i that is an unsigned decimal literal
\* (digits, digits '.' digits, digits '.', '.' digits): its value and the
\* position after it; end = i when there is none.  Exponents and radix
\* prefixes are not modelled.
DecimalPrefix(s, i) ==
  LET Literal(a, hasDot, b) ==
        LET intDigits == a - i
            fracDigits == IF hasDot THEN b - (a + 1) ELSE 0
        IN  IF intDigits = 0 /\ fracDigits = 0 THEN [end |-> i, value |-> NaN]
            ELSE [end   |-> b,
                  value |-> JAdd(Num(DigitsValue(s, i, a)),
                                 Fin(DigitsValue(s, a + 1, a + 1 + fracDigits),
                                     Pow10(fracDigits)))]
      AfterDigits(a) ==
        Literal(a, a <= Len(s) /\ s[a] = ".",
                IF a <= Len(s) /\ s[a] = "." THEN SkipDigits(s, a + 1) ELSE a)
  IN  AfterDigits(SkipDigits(s, i))

\* the value v of an unsigned literal under its sign
Signed(neg, v) == IF neg THEN JNeg(v) ELSE v

Infinity == <<"I","n","f","i","n","i","t","y">>

\* parseFloat(s)
parseFloat(s) ==
  LET Parse(i) ==
        LET neg == i <= Len(s) /\ s[i] = "-"
            j == IF i <= Len(s) /\ s[i] \in {"-", "+"} THEN i + 1 ELSE i
        IN  IF MatchAt(s, j, Infinity) THEN Signed(neg, PosInf)
            ELSE Signed(neg, DecimalPrefix(s, j).value)
  IN  Parse(SkipSpaces(s, 1))

\* Number(s) for a string: the whole trimmed string must be a numeric literal;
\* the empty string is 0.
StringToNumber(s) ==
  LET Parse(r) ==
        LET neg == Len(r) > 0 /\ r[1] = "-"
            j == IF Len(r) > 0 /\ r[1] \in {"-", "+"} THEN 2 ELSE 1
            Literal(p) == IF p.end = Len(r) + 1 /\ p.end > j THEN Signed(neg, p.value)
                          ELSE NaN
        IN  IF Len(r) = 0 THEN Num(0)
            ELSE IF From(r, j) = Infinity THEN Signed(neg, PosInf)
            ELSE Literal(DecimalPrefix(r, j))
  IN  Parse(Trim(s))

\* Number(v)
ToNumber(v) ==
  CASE v.t = "number"    -> v.num
    [] v.t = "string"    -> StringToNumber(v.str)
    [] v.t = "boolean"   -> IF v.bool THEN Num(1) ELSE Num(0)
    [] v.t = "null"      -> Num(0)
    [] v.t = "undefined" -> NaN
    [] v.t = "object"    -> NaN

\* Boolean(v)
ToBoolean(v) ==
  CASE v.t = "number"    -> Truthy(v.num)
    [] v.t = "string"    -> Len(v.str) > 0
    [] v.t = "boolean"   -> v.bool
    [] v.t = "null"      -> FALSE
    [] v.t = "undefined" -> FALSE
    [] v.t = "object"    -> TRUE

\* sanitizeString(v) for any value: a non-string becomes ''
sanitizeValue(v) == IF v.t # "string" THEN <<>> ELSE sanitizeString(v.str)

(***************************************************************************)
(* sanitizePass1                                                           *)
(*                                                                         *)
(* The parsed Pass-1 completion ("data") is a record of JavaScript values. *)
(* data.factors and data.marketData are [t, items]: t = "array" for an     *)
(* array of items, "falsy" for undefined / null / 0 / '' (replaced by []), *)
(* and "other" for a truthy non-array, on which .slice or .map throws.     *)
(* An item is an object [t |-> "object", ...fields], or null / undefined   *)
(* ([t |-> "null"]), on which the property access throws.  data.t is       *)
(* "null" when the completion was the JSON text null.                      *)
(***************************************************************************)
MaxFactors     == 10
MaxMarketData  == 20
MaxNameLen     == 100
MaxReasonLen   == 500
MaxUnitLen     == 20
MaxSourceLen   == 200
MaxMarketStrLen == 200

ConfHigh   == <<"h","i","g","h">>
ConfMedium == <<"m","e","d","i","u","m">>
ConfLow    == <<"l","o","w">>

\* the lower bound alone
ClampBelow(lo, hi, x) == JMax(lo, x)

Clamp(lo, hi, x) == JMax(lo, JMin(hi, x))

\* Number(v) || 0
NumberOrZero(v) == JOr(ToNumber(v), Num(0))

sanitizeFactor(f) ==
  [name               |-> Slice(sanitizeValue(f.name), MaxNameLen),
   weight             |-> Clamp(Num(0), Num(1), NumberOrZero(f.weight)),
   score              |-> Clamp(Num(0), Num(100), JRound(NumberOrZero(f.score))),
   reasoning          |-> Slice(sanitizeValue(f.reasoning), MaxReasonLen),
   isLocationSpecific |-> ToBoolean(f.isLocationSpecific)]

sanitizeMarketDataPoint(d) ==
  [metric         |-> Slice(sanitizeValue(d.metric), MaxNameLen),
   minValue       |-> NumberOrZero(d.minValue),
   maxValue       |-> NumberOrZero(d.maxValue),
   estimatedValue |-> NumberOrZero(d.estimatedValue),
   unit           |-> Slice(sanitizeValue(d.unit), MaxUnitLen),
   source         |-> Slice(sanitizeValue(d.source), MaxSourceLen),
   confidence     |-> IF d.confidence.t = "string"
                         /\ d.confidence.str \in {ConfHigh, ConfMedium, ConfLow}
                      THEN d.confidence.str ELSE ConfLow]

\* (list || []).slice(0, n)
ListItems(list, n) == IF list.t = "array" THEN Slice(list.items, n) ELSE <<>>

\* sanitizePass1 throws a TypeError (and the request fails) in these cases
sanitizePass1Throws(data) ==
  \/ data.t = "null"
  \/ data.factors.t = "other"
  \/ data.marketData.t = "other"
  \/ \E i \in DOMAIN ListItems(data.factors, MaxFactors) :
        ListItems(data.factors, MaxFactors)[i].t = "null"
  \/ \E i \in DOMAIN ListItems(data.marketData, MaxMarketData) :
        ListItems(data.marketData, MaxMarketData)[i].t = "null"

sanitizePass1(data) ==
  LET fs == ListItems(data.factors, MaxFactors)
      ms == ListItems(data.marketData, MaxMarketData)
  IN  [factors    |-> [i \in DOMAIN fs |-> sanitizeFactor(fs[i])],
       marketData |-> [i \in DOMAIN ms |-> sanitizeMarketDataPoint(ms[i])],
       estimatedSetupCostMin       |-> JMax(Num(0), NumberOrZero(data.estimatedSetupCostMin)),
       estimatedSetupCostMax       |-> JMax(Num(0), NumberOrZero(data.estimatedSetupCostMax)),
       estimatedMonthlyRevenueMin  |-> JMax(Num(0), NumberOrZero(data.estimatedMonthlyRevenueMin)),
       estimatedMonthlyRevenueMax  |-> JMax(Num(0), NumberOrZero(data.estimatedMonthlyRevenueMax)),
       estimatedMonthlyExpensesMin |-> JMax(Num(0), NumberOrZero(data.estimatedMonthlyExpensesMin)),
       estimatedMonthlyExpensesMax |-> JMax(Num(0), NumberOrZero(data.estimatedMonthlyExpensesMax)),
       avgProfitMargin     |-> Clamp(Num(0), Num(1), NumberOrZero(data.avgProfitMargin)),
       directCompetitors   |-> JMax(Num(0), JRound(NumberOrZero(data.directCompetitors))),
       indirectCompetitors |-> JMax(Num(0), JRound(NumberOrZero(data.indirectCompetitors))),
       marketSize   |-> Slice(sanitizeValue(data.marketSize), MaxMarketStrLen),
       marketGrowth |-> Slice(sanitizeValue(data.marketGrowth), MaxMarketStrLen)]

(***************************************************************************)
(* PASS 2: parseBudget                                                     *)
(***************************************************************************)
DefaultBudget == 500000
Lakh  == 100000
Crore == 10000000
Thousand == 1000

NotSpecified == <<"N","o","t"," ","s","p","e","c","i","f","i","e","d">>

\* "RUPEE" stands for the one character U+20B9.
IsBudgetNoise(c) == c \in {"RUPEE", "$", ","} \/ IsSpace(c)

\* budget.replace(/[₹$,\s]/g, '')
StripBudgetNoise(s) == SelectSeq(s, LAMBDA c : ~IsBudgetNoise(c))

IsDigitOrDot(c) == IsDigit(c) \/ c = "."

\* first position >= i of s that holds neither a digit nor a dot
SkipDigitsDots(s, i) ==
  IF i > Len(s) THEN i
  ELSE CHOOSE j \in i..(Len(s) + 1) :
         /\ j = Len(s) + 1 \/ ~IsDigitOrDot(s[j])
         /\ \A m \in i..(j - 1) : IsDigitOrDot(s[m])

\* clean.match(/[\d.]+/): the first maximal run of digits and dots, <<>> if none
FirstNumberRun(s) ==
  IF \E i \in 1..Len(s) : IsDigitOrDot(s[i])
  THEN LET i == CHOOSE i \in 1..Len(s) :
                  IsDigitOrDot(s[i]) /\ \A j \in 1..(i - 1) : ~IsDigitOrDot(s[j])
       IN  SubSeq(s, i, SkipDigitsDots(s, i) - 1)
  ELSE <<>>

\* the units looked for in another order: k first
budgetMultiplierKFirst(clean) ==
  IF Includes(clean, <<"k">>) THEN Thousand
  ELSE IF Includes(clean, <<"l","a","k","h">>) \/ Includes(clean, <<"l","a","c">>) THEN Lakh
  ELSE IF Includes(clean, <<"c","r","o","r","e">>) \/ Includes(clean, <<"c","r">>) THEN Crore
  ELSE IF EndsWith(clean, <<"l">>) THEN Lakh
  ELSE 1

budgetMultiplier(clean) ==
  IF Includes(clean, <<"l","a","k","h">>) \/ Includes(clean, <<"l","a","c">>) THEN Lakh
  ELSE IF Includes(clean, <<"c","r","o","r","e">>) \/ Includes(clean, <<"c","r">>) THEN Crore
  ELSE IF EndsWith(clean, <<"l">>) THEN Lakh
  ELSE IF Includes(clean, <<"k">>) THEN Thousand
  ELSE 1

parseBudget(budget) ==
  IF Len(budget) = 0 \/ budget = NotSpecified THEN Num(DefaultBudget)
  ELSE LET clean == toLowerCase(StripBudgetNoise(budget))
           run == FirstNumberRun(clean)
       IN  IF Len(run) > 0
           THEN JMul(parseFloat(run), Num(budgetMultiplier(clean)))
           ELSE Num(DefaultBudget)

(***************************************************************************)
(* PASS 2: feature extraction                                              *)
(***************************************************************************)
MaxBudgetRatio   == 5
MaxRevExpRatio   == 5
CompetitorScale  == 50
GrowthScale      == 30
DefaultGrowthPercent == 5
DefaultFactorScore   == 50
VarianceScale    == 50

RECURSIVE SumRange(_, _, _)
\* f[lo] + ... + f[hi].  The additions are exact, so their grouping does not
\* change the result; halving the range keeps the evaluation shallow.
SumRange(f, lo, hi) ==
  IF lo > hi THEN Num(0)
  ELSE IF lo = hi THEN f[lo]
  ELSE LET mid == (lo + hi) \div 2
       IN  JAdd(SumRange(f, lo, mid), SumRange(f, mid + 1, hi))

\* xs.reduce((s, x) => s + x, 0) over f[1..n]
SumSeq(f, n) == SumRange(f, 1, n)

\* (pass1.marketGrowth).match(/([\d.]+)\s*%/): the captured group of the
\* leftmost match, <<>> if there is none.  A match can only start where a
\* maximal run of digits and dots starts, and takes the whole run.
GrowthMatch(s) ==
  LET starts == {i \in 1..Len(s) :
                   /\ IsDigitOrDot(s[i])
                   /\ (i = 1 \/ ~IsDigitOrDot(s[i - 1]))
                   /\ LET e == SkipSpaces(s, SkipDigitsDots(s, i))
                      IN  e <= Len(s) /\ s[e] = "%"}
  IN  IF starts = {} THEN <<>>
      ELSE LET i == CHOOSE i \in starts : \A j \in starts : i <= j
           IN  SubSeq(s, i, SkipDigitsDots(s, i) - 1)

\* (a + b) / 2 || 1
AverageOrOne(a, b) == JOr(JDiv(JAdd(a, b), Num(2)), Num(1))

\* match ? parseFloat(match[1]) : 5
growthPercentOf(growthMatch) ==
  IF Len(growthMatch) > 0 THEN parseFloat(growthMatch) ELSE Num(DefaultGrowthPercent)

\* scores.reduce((s, v) => s + v, 0) / (scores.length || 1)
meanOf(fs) ==
  JDiv(SumSeq([i \in 1..Len(fs) |-> fs[i].score], Len(fs)),
       Num(IF Len(fs) = 0 THEN 1 ELSE Len(fs)))

\* scores.reduce((s, v) => s + (v - mean) ** 2, 0) / (scores.length || 1)
varianceOf(fs, mean) ==
  InOrder(<<mean,
    JDiv(SumSeq([i \in 1..Len(fs) |->
                   JMul(JSub(fs[i].score, mean), JSub(fs[i].score, mean))], Len(fs)),
         Num(IF Len(fs) = 0 THEN 1 ELSE Len(fs)))>>)

\* The feature vector.  factorVariance = min(1, sqrt(variance) / 50) is kept
\* as its square, factorVarianceSq = min(1, variance / 2500), which is exact.
extractFeatures(p, budgetAmount) ==
  LET fs == p.factors
      n  == Len(fs)
      weightedSum == SumSeq([i \in 1..n |-> JMul(fs[i].score, fs[i].weight)], n)
      totalWeight == SumSeq([i \in 1..n |-> fs[i].weight], n)
      maxScore == IF \E i \in 1..n : JGt(fs[i].score, Num(0))
                  THEN CHOOSE x \in {fs[i].score : i \in 1..n} :
                         \A i \in 1..n : JLe(fs[i].score, x)
                  ELSE Num(0)
      minScore == IF \E i \in 1..n : JLt(fs[i].score, Num(100))
                  THEN CHOOSE x \in {fs[i].score : i \in 1..n} :
                         \A i \in 1..n : JGe(fs[i].score, x)
                  ELSE Num(100)
      avgFactorScoreOf(total) ==
        IF JGt(total, Num(0)) THEN JDiv(weightedSum, total) ELSE Num(DefaultFactorScore)
      avgSetupCost == AverageOrOne(p.estimatedSetupCostMin, p.estimatedSetupCostMax)
      budgetRatio == JDiv(budgetAmount, avgSetupCost)
      totalCompetitors == JAdd(p.directCompetitors, JMul(p.indirectCompetitors, Fin(1, 2)))
      competitionDensity == JMin(Num(1), JDiv(totalCompetitors, Num(CompetitorScale)))
      growthPercent == growthPercentOf(GrowthMatch(p.marketGrowth))
      marketGrowthSignal == JMin(Num(1), JDiv(growthPercent, Num(GrowthScale)))
      profitMarginEstimate == Clamp(Num(0), Num(1), JOr(p.avgProfitMargin, Num(0)))
      locSpecific == {i \in 1..n : fs[i].isLocationSpecific}
      locationTierScore ==
        IF locSpecific # {}
        THEN JDiv(fs[CHOOSE i \in locSpecific : \A j \in locSpecific : i <= j].score, Num(100))
        ELSE Fin(1, 2)
      avgRevenue  == AverageOrOne(p.estimatedMonthlyRevenueMin, p.estimatedMonthlyRevenueMax)
      avgExpenses == AverageOrOne(p.estimatedMonthlyExpensesMin, p.estimatedMonthlyExpensesMax)
      revenueToExpenseRatio == JDiv(avgRevenue, avgExpenses)
      variance == varianceOf(fs, meanOf(fs))
      factorVarianceSq == JMin(Num(1), JDiv(variance, Num(VarianceScale * VarianceScale)))
  IN  InOrder(<<
        weightedSum, totalWeight, avgSetupCost, budgetRatio, totalCompetitors,
        growthPercent, avgRevenue, avgExpenses, revenueToExpenseRatio, variance,
        [avgFactorScore        |-> avgFactorScoreOf(totalWeight),
         budgetRatio           |-> JMin(Num(MaxBudgetRatio), budgetRatio),
         competitionDensity    |-> competitionDensity,
         marketGrowthSignal    |-> marketGrowthSignal,
         profitMarginEstimate  |-> profitMarginEstimate,
         locationTierScore     |-> locationTierScore,
         revenueToExpenseRatio |-> JMin(Num(MaxRevExpRatio), revenueToExpenseRatio),
         factorVarianceSq      |-> factorVarianceSq,
         topFactorScore        |-> maxScore,
         bottomFactorScore     |-> minScore] >>)

(***************************************************************************)
(* PASS 2: the stump ensemble                                              *)
(***************************************************************************)
Stump(key, thrN, thrD, left, right, w) ==
  [featureKey |-> key, threshold |-> Fin(thrN, thrD),
   leftValue |-> Num(left), rightValue |-> Num(right), weight |-> Fin(w, 100)]

DECISION_STUMPS == <<
  Stump("avgFactorScore", 60, 1, -12, 10, 15),
  Stump("avgFactorScore", 40, 1, -18, 5, 12),
  Stump("avgFactorScore", 75, 1, -3, 12, 10),
  Stump("budgetRatio", 1, 2, -20, 5, 12),
  Stump("budgetRatio", 1, 1, -8, 6, 10),
  Stump("budgetRatio", 2, 1, 2, 3, 5),
  Stump("competitionDensity", 3, 10, 8, -5, 10),
  Stump("competitionDensity", 7, 10, 3, -12, 8),
  Stump("marketGrowthSignal", 2, 10, -6, 7, 8),
  Stump("marketGrowthSignal", 5, 10, -2, 8, 6),
  Stump("profitMarginEstimate", 15, 100, -15, 5, 10),
  Stump("profitMarginEstimate", 30, 100, -3, 8, 7),
  Stump("revenueToExpenseRatio", 1, 1, -20, 5, 12),
  Stump("revenueToExpenseRatio", 15, 10, -5, 8, 8),
  Stump("factorVariance", 4, 10, 3, -6, 6),
  Stump("bottomFactorScore", 25, 1, -15, 3, 10),
  Stump("bottomFactorScore", 40, 1, -8, 4, 7),
  Stump("topFactorScore", 80, 1, -2, 8, 5),
  Stump("locationTierScore", 5, 10, -5, 6, 6) >>

IStump(a, b, op, thrN, thrD, left, right, w) ==
  [featureA |-> a, featureB |-> b, operation |-> op, threshold |-> Fin(thrN, thrD),
   leftValue |-> Num(left), rightValue |-> Num(right), weight |-> Fin(w, 100)]

INTERACTION_STUMPS == <<
  IStump("competitionDensity", "budgetRatio", "divide", 5, 10, 5, -10, 10),
  IStump("profitMarginEstimate", "marketGrowthSignal", "multiply", 8, 100, -5, 10, 8),
  IStump("bottomFactorScore", "competitionDensity", "multiply", 20, 1, 4, -8, 7),
  IStump("revenueToExpenseRatio", "budgetRatio", "min", 8, 10, -12, 6, 9),
  IStump("topFactorScore", "locationTierScore", "multiply", 40, 1, -3, 7, 5),
  IStump("factorVariance", "competitionDensity", "multiply", 15, 100, 3, -8, 6) >>

BasePrediction == 50

\* features[key] <= threshold.  factorVariance is held as its square, and
\* x <= t iff x*x <= t*t for the non-negative x and t compared here.
FeatureLe(features, key, threshold) ==
  IF key = "factorVariance"
  THEN JLe(features.factorVarianceSq, JMul(threshold, threshold))
  ELSE JLe(features[key], threshold)

\* the value of the branch without the weight of the stump
stumpContributionUnweighted(features, stump) ==
  IF FeatureLe(features, stump.featureKey, stump.threshold)
  THEN stump.leftValue
  ELSE stump.rightValue

stumpContribution(features, stump) ==
  IF FeatureLe(features, stump.featureKey, stump.threshold)
  THEN JMul(stump.leftValue, stump.weight)
  ELSE JMul(stump.rightValue, stump.weight)

computeInteraction(features, stump) ==
  LET sq == stump.featureA = "factorVariance"
      a == IF sq THEN features.factorVarianceSq ELSE features[stump.featureA]
      b0 == features[stump.featureB]
      b == IF sq THEN JMul(b0, b0) ELSE b0
      thr == IF sq THEN JMul(stump.threshold, stump.threshold) ELSE stump.threshold
      value == CASE stump.operation = "multiply" -> JMul(a, b)
                 [] stump.operation = "divide" ->
                      IF IsNaN(b) \/ b.n # 0 THEN JDiv(a, b) ELSE Num(0)
                 [] stump.operation = "min" -> JMin(a, b)
                 [] stump.operation = "max" -> JMax(a, b)
  IN  IF JLe(value, thr) THEN JMul(stump.leftValue, stump.weight)
      ELSE JMul(stump.rightValue, stump.weight)

\* The sum of the contributions f[i].  Every contribution is a value times a
\* weight, a whole number of hundredths, so the sum is taken over integers.
SumContributions(f) ==
  LET hundredths(i) == (f[i].n * 100) \div f[i].d
      gains  == [i \in {j \in DOMAIN f : hundredths(j) > 0} |-> hundredths(i)]
      losses == [i \in {j \in DOMAIN f : hundredths(j) < 0} |-> -hundredths(i)]
  IN  Fin(BagCardinality(gains) - BagCardinality(losses), 100)

\* the contributions of the decision stumps, and of the interaction stumps
stumpContributions(features, stumps) ==
  [i \in DOMAIN stumps |-> stumpContribution(features, stumps[i])]
interactionContributions(features, stumps) ==
  [i \in DOMAIN stumps |-> computeInteraction(features, stumps[i])]

\* the additive prediction before clamping and rounding
rawPrediction(features) ==
  JAdd(JAdd(Num(BasePrediction),
            SumContributions(stumpContributions(features, DECISION_STUMPS))),
       SumContributions(interactionContributions(features, INTERACTION_STUMPS)))

\* the prediction clamped but not rounded
clampOnly(prediction) == JMin(Num(100), JMax(Num(0), prediction))

\* Math.round(Math.min(100, Math.max(0, prediction)))
clampAndRound(prediction) == JRound(JMin(Num(100), JMax(Num(0), prediction)))

gbdtPredict(features) == clampAndRound(rawPrediction(features))

(***************************************************************************)
(* PASS 2: pass2_score, GBDT variant                                       *)
(***************************************************************************)
GoScore        == 62
AvoidScore     == 35
BreakEvenCap   == 36
ProjectionYears == 5

GoBudgetRatio    == Fin(1, 2)
AvoidBudgetRatio == Fin(1, 4)

\* the five YearRecords with the profit taken before the expenses grow
projectionsFlatExpenses(avgMonthlyRevenue, avgMonthlyExpenses, currentYear, growthRates) ==
  [j \in 1..ProjectionYears |->
     LET idx == j - 1
         rev == JRound(JMul(JMul(avgMonthlyRevenue, Num(12)), growthRates[j]))
         exp == JRound(JMul(JMul(avgMonthlyExpenses, Num(12)),
                            JAdd(Num(1), JMul(Num(idx), Fin(5, 100)))))
     IN  [year |-> currentYear + idx, revenue |-> rev, expenses |-> exp,
          profit |-> JSub(rev, JRound(JMul(avgMonthlyExpenses, Num(12))))]]

\* the five YearRecords; growthRates[j] is the revenue growth rate of record j
projections(avgMonthlyRevenue, avgMonthlyExpenses, currentYear, growthRates) ==
  [j \in 1..ProjectionYears |->
     LET idx == j - 1
         rev == JRound(JMul(JMul(avgMonthlyRevenue, Num(12)), growthRates[j]))
         exp == JRound(JMul(JMul(avgMonthlyExpenses, Num(12)),
                            JAdd(Num(1), JMul(Num(idx), Fin(5, 100)))))
     IN  [year |-> currentYear + idx, revenue |-> rev, expenses |-> exp,
          profit |-> JSub(rev, exp)]]

\* monthsProfit > 0 ? round(profit * 12 / budget * 100) : -round(|profit| * 12 / budget * 100)
roiOf(profit, budgetAmount) ==
  IF JGt(profit, Num(0))
  THEN JRound(JMul(JDiv(JMul(profit, Num(12)), budgetAmount), Num(100)))
  ELSE JNeg(JRound(JMul(JDiv(JMul(JAbs(profit), Num(12)), budgetAmount), Num(100))))

\* the verdict without the budget floor: AVOID on a low score only
verdictOfNoFloor(score, budgetRatio) ==
  IF JGe(score, Num(GoScore)) /\ JGe(budgetRatio, GoBudgetRatio) THEN "GO"
  ELSE IF JLt(score, Num(AvoidScore)) THEN "AVOID"
  ELSE "CAUTION"

\* the verdict without the budget guard on GO
verdictOfScoreOnly(score, budgetRatio) ==
  IF JGe(score, Num(GoScore)) THEN "GO"
  ELSE IF JLt(score, Num(AvoidScore)) \/ JLt(budgetRatio, AvoidBudgetRatio) THEN "AVOID"
  ELSE "CAUTION"

\* if (score >= 62 && budgetRatio >= 0.5) GO; else if (score < 35 || budgetRatio < 0.25) AVOID
verdictOf(score, budgetRatio) ==
  IF JGe(score, Num(GoScore)) /\ JGe(budgetRatio, GoBudgetRatio) THEN "GO"
  ELSE IF JLt(score, Num(AvoidScore)) \/ JLt(budgetRatio, AvoidBudgetRatio) THEN "AVOID"
  ELSE "CAUTION"

\* Math.min(100, Math.round(budgetRatio * 100))
budgetFitPercentOf(budgetRatio) == JMin(Num(100), JRound(JMul(budgetRatio, Num(100))))

\* (min + max) / 2
Average(a, b) == JDiv(JAdd(a, b), Num(2))

\* the months rounded down
breakEvenMonthsFloor(avgSetupCost, monthlyProfit) ==
  IF JGt(monthlyProfit, Num(0)) THEN JFloor(JDiv(avgSetupCost, monthlyProfit))
  ELSE Num(BreakEvenCap)

\* monthlyProfit > 0 ? Math.ceil(avgSetupCost / monthlyProfit) : 36
breakEvenMonthsOf(avgSetupCost, monthlyProfit) ==
  IF JGt(monthlyProfit, Num(0)) THEN JCeil(JDiv(avgSetupCost, monthlyProfit))
  ELSE Num(BreakEvenCap)

\* 0.6 + (score / 100) * 0.8
confidenceMultiplierOf(score) == JAdd(Fin(6, 10), JMul(JDiv(score, Num(100)), Fin(8, 10)))

\* 0.08 + (score / 100) * 0.12
baseGrowthOf(score) == JAdd(Fin(8, 100), JMul(JDiv(score, Num(100)), Fin(12, 100)))

pass2_score(p, budget, currentYear) ==
  LET budgetAmount == parseBudget(budget)
      avgSetupCost == AverageOrOne(p.estimatedSetupCostMin, p.estimatedSetupCostMax)
      avgMonthlyRevenue ==
        Average(p.estimatedMonthlyRevenueMin, p.estimatedMonthlyRevenueMax)
      avgMonthlyExpenses ==
        Average(p.estimatedMonthlyExpensesMin, p.estimatedMonthlyExpensesMax)
      Scored(features, score) ==
        LET confidenceMultiplier == confidenceMultiplierOf(score)
            adjustedMonthlyRevenue == JMul(avgMonthlyRevenue, confidenceMultiplier)
            adjustedMonthlyProfit == JSub(adjustedMonthlyRevenue, avgMonthlyExpenses)
            baseGrowth == baseGrowthOf(score)
            growthRate(yr) == JAdd(Num(1), JMul(baseGrowth, Num(yr)))
        IN  InOrder(<<score, adjustedMonthlyProfit, baseGrowth,
              [score |-> score,
               verdict |-> verdictOf(score, features.budgetRatio),
               factors |-> p.factors,
               breakEvenMonths |-> breakEvenMonthsOf(avgSetupCost, adjustedMonthlyProfit),
               roi |-> roiOf(adjustedMonthlyProfit, budgetAmount),
               financialProjections |->
                 projections(avgMonthlyRevenue, avgMonthlyExpenses, currentYear,
                             [j \in 1..ProjectionYears |-> growthRate(j - 1)]),
               budgetFitPercent |-> budgetFitPercentOf(features.budgetRatio),
               gbdtFeatures |-> features] >>)
      WithFeatures(features) ==
        InOrder(<<features, Scored(features, gbdtPredict(features))>>)
  IN  InOrder(<<budgetAmount, WithFeatures(extractFeatures(p, budgetAmount))>>)

(***************************************************************************)
(* PASS 2: pass2_score, weighted-average variant                           *)
(***************************************************************************)
GoScoreWA       == 65
GoBudgetFitWA   == 50
AvoidBudgetFitWA == 25

\* two steps of the function in each other's place
budgetModifierSwapped(budgetRatio) ==
  IF JGe(budgetRatio, Num(2)) THEN Fin(115, 100)
  ELSE IF JGe(budgetRatio, Fin(15, 10)) THEN Fin(110, 100)
  ELSE IF JGe(budgetRatio, Num(1)) THEN Num(1)
  ELSE IF JGe(budgetRatio, Fin(7, 10)) THEN Fin(70, 100)
  ELSE IF JGe(budgetRatio, Fin(5, 10)) THEN Fin(85, 100)
  ELSE IF JGe(budgetRatio, Fin(3, 10)) THEN Fin(55, 100)
  ELSE Fin(40, 100)

budgetModifierOf(budgetRatio) ==
  IF JGe(budgetRatio, Num(2)) THEN Fin(115, 100)
  ELSE IF JGe(budgetRatio, Fin(15, 10)) THEN Fin(110, 100)
  ELSE IF JGe(budgetRatio, Num(1)) THEN Num(1)
  ELSE IF JGe(budgetRatio, Fin(7, 10)) THEN Fin(85, 100)
  ELSE IF JGe(budgetRatio, Fin(5, 10)) THEN Fin(70, 100)
  ELSE IF JGe(budgetRatio, Fin(3, 10)) THEN Fin(55, 100)
  ELSE Fin(40, 100)

growthWA(i) == JAdd(Num(1), JMul(Num(i), Fin(15, 100)))

\* if (score >= 65 && budgetFitPercent >= 50) GO; else if (score < 35 || budgetFitPercent < 25) AVOID
verdictOfWA(score, budgetFitPercent) ==
  IF JGe(score, Num(GoScoreWA)) /\ JGe(budgetFitPercent, Num(GoBudgetFitWA)) THEN "GO"
  ELSE IF JLt(score, Num(AvoidScore)) \/ JLt(budgetFitPercent, Num(AvoidBudgetFitWA))
  THEN "AVOID"
  ELSE "CAUTION"

\* the weighted mean of the factor scores, 50 when the weights sum to nothing
rawScoreOf(fs) ==
  LET n == Len(fs)
      weightedSum == SumSeq([i \in 1..n |-> JMul(fs[i].score, fs[i].weight)], n)
      totalWeight == SumSeq([i \in 1..n |-> fs[i].weight], n)
  IN  IF JGt(totalWeight, Num(0)) THEN JDiv(weightedSum, totalWeight)
      ELSE Num(DefaultFactorScore)

\* Math.round(Math.min(100, Math.max(0, rawScore * budgetModifier)))
scoreOfWA(rawScore, budgetRatio) ==
  JRound(JMin(Num(100), JMax(Num(0), JMul(rawScore, budgetModifierOf(budgetRatio)))))

\* avgSetupCost > 0 ? budgetAmount / avgSetupCost : 1
budgetRatioOfWA(budgetAmount, avgSetupCost) ==
  IF JGt(avgSetupCost, Num(0)) THEN JDiv(budgetAmount, avgSetupCost) ELSE Num(1)

pass2_scoreWA(p, budget, currentYear) ==
  LET budgetAmount == parseBudget(budget)
      avgSetupCost == Average(p.estimatedSetupCostMin, p.estimatedSetupCostMax)
      avgMonthlyRevenue ==
        Average(p.estimatedMonthlyRevenueMin, p.estimatedMonthlyRevenueMax)
      avgMonthlyExpenses ==
        Average(p.estimatedMonthlyExpensesMin, p.estimatedMonthlyExpensesMax)
      monthlyProfit == JSub(avgMonthlyRevenue, avgMonthlyExpenses)
      Scored(budgetRatio, budgetFitPercent, score) ==
        InOrder(<<budgetRatio, budgetFitPercent, score, monthlyProfit,
          [score |-> score,
           verdict |-> verdictOfWA(score, budgetFitPercent),
           factors |-> p.factors,
           breakEvenMonths |-> breakEvenMonthsOf(avgSetupCost, monthlyProfit),
           roi |-> roiOf(monthlyProfit, budgetAmount),
           financialProjections |->
             projections(avgMonthlyRevenue, avgMonthlyExpenses, currentYear,
                         [j \in 1..ProjectionYears |-> growthWA(j - 1)]),
           budgetFitPercent |-> budgetFitPercent] >>)
      WithRatio(budgetRatio) ==
        Scored(budgetRatio, budgetFitPercentOf(budgetRatio),
               scoreOfWA(rawScoreOf(p.factors), budgetRatio))
  IN  InOrder(<<budgetAmount, avgSetupCost,
                WithRatio(budgetRatioOfWA(budgetAmount, avgSetupCost))>>)

(***************************************************************************)
(* Monthly breakdown with seasonal variance                                *)
(***************************************************************************)
monthNames == <<"Jan", "Feb", "Mar", "Apr", "May", "Jun",
                "Jul", "Aug", "Sep", "Oct", "Nov", "Dec">>
\* weights that leave a tenth of the year out
seasonalWeightsShort == <<7, 6, 8, 8, 8, 8, 8, 9, 9, 10, 10, 0>>

\* in hundredths
seasonalWeights == <<7, 6, 8, 8, 8, 8, 8, 9, 9, 10, 10, 9>>

monthsOf(y) ==
  [i \in DOMAIN monthNames |->
     [month    |-> monthNames[i],
      revenue  |-> JRound(JMul(y.revenue, Fin(seasonalWeights[i], 100))),
      expenses |-> JRound(JDiv(y.expenses, Num(12))),
      profit   |-> JRound(JSub(JMul(y.revenue, Fin(seasonalWeights[i], 100)),
                               JDiv(y.expenses, Num(12))))]]

generateYearlyWithMonths(yearlyData) ==
  [j \in DOMAIN yearlyData |->
     [year |-> yearlyData[j].year, revenue |-> yearlyData[j].revenue,
      expenses |-> yearlyData[j].expenses, profit |-> yearlyData[j].profit,
      months |-> monthsOf(yearlyData[j])]]

(***************************************************************************)
(* sanitizePass3                                                           *)
(*                                                                         *)
(* The parsed Pass-3 completion is a record of JavaScript values; a list   *)
(* field is [t, items] with t = "array" or "other" (anything that is not   *)
(* an array).  score and verdict are fields the completion may carry on    *)
(* its own account.                                                        *)
(***************************************************************************)
MaxStringArray == 20
MaxRisks       == 10
MaxPhases      == 5
MaxPhaseLen    == 100
MaxDurationLen == 50

SevLow    == <<"l","o","w">>
SevMedium == <<"m","e","d","i","u","m">>
SevHigh   == <<"h","i","g","h">>

\* the list without its cap
sanitizeStringArrayUncapped(arr) ==
  IF arr.t # "array" THEN <<>>
  ELSE SelectSeq([i \in DOMAIN arr.items |-> sanitizeValue(arr.items[i])],
                 LAMBDA x : Len(x) > 0)

\* arr.map(sanitizeString).filter(Boolean).slice(0, 20), [] for a non-array
sanitizeStringArray(arr) ==
  IF arr.t # "array" THEN <<>>
  ELSE Slice(SelectSeq([i \in DOMAIN arr.items |-> sanitizeValue(arr.items[i])],
                       LAMBDA x : Len(x) > 0),
             MaxStringArray)

\* r?.field of a list item that may be null or undefined
FieldOf(item, field) == IF item.t = "object" THEN item[field] ELSE JUndef

sanitizeRisk(r) ==
  [risk       |-> sanitizeValue(FieldOf(r, "risk")),
   severity   |-> IF FieldOf(r, "severity").t = "string"
                     /\ FieldOf(r, "severity").str \in {SevLow, SevMedium, SevHigh}
                  THEN FieldOf(r, "severity").str ELSE SevMedium,
   mitigation |-> sanitizeValue(FieldOf(r, "mitigation"))]

sanitizePhase(ph) ==
  [phase      |-> Slice(sanitizeValue(FieldOf(ph, "phase")), MaxPhaseLen),
   duration   |-> Slice(sanitizeValue(FieldOf(ph, "duration")), MaxDurationLen),
   tasks      |-> sanitizeStringArray(IF ph.t = "object" THEN ph.tasks
                                      ELSE [t |-> "other", items |-> <<>>]),
   milestones |-> sanitizeStringArray(IF ph.t = "object" THEN ph.milestones
                                      ELSE [t |-> "other", items |-> <<>>])]

\* sanitizePass3 throws a TypeError when the completion was the JSON text null
sanitizePass3Throws(data) == data.t = "null"

sanitizePass3(data) ==
  LET rs == IF data.risks.t = "array" THEN Slice(data.risks.items, MaxRisks) ELSE <<>>
      ps == IF data.roadmapPhases.t = "array"
            THEN Slice(data.roadmapPhases.items, MaxPhases) ELSE <<>>
  IN  [summary                |-> sanitizeValue(data.summary),
       marketExplanation      |-> sanitizeValue(data.marketExplanation),
       competitionExplanation |-> sanitizeValue(data.competitionExplanation),
       financialExplanation   |-> sanitizeValue(data.financialExplanation),
       competitiveAdvantage   |-> sanitizeValue(data.competitiveAdvantage),
       threats                |-> sanitizeStringArray(data.threats),
       opportunities          |-> sanitizeStringArray(data.opportunities),
       risks                  |-> [i \in DOMAIN rs |-> sanitizeRisk(rs[i])],
       recommendations        |-> sanitizeStringArray(data.recommendations),
       roadmapPhases          |-> [i \in DOMAIN ps |-> sanitizePhase(ps[i])],
       roadmapExplanation     |-> sanitizeValue(data.roadmapExplanation),
       expertInsights         |-> sanitizeValue(data.expertInsights)]

(***************************************************************************)
(* INPUT VALIDATION                                                        *)
(*                                                                         *)
(* The request body is [t, businessIdea, location, budget]: t = "object"   *)
(* for a JSON object (absent fields are undefined), "other" for null or a  *)
(* primitive.                                                              *)
(***************************************************************************)
MinIdeaLen     == 10
MaxIdeaLen     == 2000
MaxLocationLen == 200
MaxBudgetLen   == 100

Invalid(msg) == [valid |-> FALSE, error |-> msg]

validateInput(body) ==
  IF body.t # "object" THEN Invalid("Invalid request body")
  ELSE IF ~ToBoolean(body.businessIdea) \/ body.businessIdea.t # "string"
  THEN Invalid("Business idea is required")
  ELSE IF Len(Trim(body.businessIdea.str)) < MinIdeaLen
  THEN Invalid("Business idea must be at least 10 characters")
  ELSE IF Len(Trim(body.businessIdea.str)) > MaxIdeaLen
  THEN Invalid("Business idea must be less than 2000 characters")
  ELSE IF ToBoolean(body.location) /\ body.location.t # "string"
  THEN Invalid("Location must be a string")
  ELSE IF ToBoolean(body.location) /\ Len(Trim(body.location.str)) > MaxLocationLen
  THEN Invalid("Location must be less than 200 characters")
  ELSE IF ToBoolean(body.budget) /\ body.budget.t # "string"
  THEN Invalid("Budget must be a string")
  ELSE IF ToBoolean(body.budget) /\ Len(Trim(body.budget.str)) > MaxBudgetLen
  THEN Invalid("Budget must be less than 100 characters")
  ELSE LET trimmedLocation == IF ToBoolean(body.location) THEN Trim(body.location.str) ELSE <<>>
           trimmedBudget   == IF ToBoolean(body.budget) THEN Trim(body.budget.str) ELSE <<>>
       IN  [valid |-> TRUE,
            data  |-> [businessIdea |-> Trim(body.businessIdea.str),
                       location |-> IF Len(trimmedLocation) > 0 THEN trimmedLocation
                                    ELSE NotSpecified,
                       budget   |-> IF Len(trimmedBudget) > 0 THEN trimmedBudget
                                    ELSE NotSpecified]]

(***************************************************************************)
(* HELPER: callAI and parseJSON                                            *)
(*                                                                         *)
(* A gateway outcome is [key, net, status, content]: whether               *)
(* LOVABLE_API_KEY is set, whether fetch resolves ("ok") or throws, the    *)
(* HTTP status, and the completion.  A completion is [tokens, value]:      *)
(* tokens spells the text as "prose" (text that is no JSON and holds no    *)
(* fence), "fence" (```), "jsontag" (the word json), "ws" (whitespace),    *)
(* "obj" (the text of one JSON object) and "null" (the JSON text null);    *)
(* value is what the "obj" text parses to.                                 *)
(***************************************************************************)
Thrown(msg)   == [ok |-> FALSE, error |-> msg]
Returned(v)   == [ok |-> TRUE, value |-> v]

callAI(g) ==
  IF ~g.key THEN Thrown("SERVICE_CONFIG_ERROR")
  ELSE IF g.net # "ok" THEN Thrown("fetch failed")
  ELSE IF g.status = 429 THEN Thrown("RATE_LIMITED")
  ELSE IF g.status = 402 THEN Thrown("CREDITS_EXHAUSTED")
  ELSE IF g.status < 200 \/ g.status > 299 THEN Thrown("SERVICE_ERROR")
  ELSE IF Len(g.content.tokens) = 0 THEN Thrown("EMPTY_RESPONSE")
  ELSE Returned(g.content)

SkipWs(toks, i) ==
  IF i > Len(toks) THEN i
  ELSE CHOOSE j \in i..(Len(toks) + 1) :
         /\ j = Len(toks) + 1 \/ toks[j] # "ws"
         /\ \A m \in i..(j - 1) : toks[m] = "ws"

TrimWsEnd(toks) ==
  SubSeq(toks, 1, CHOOSE j \in 0..Len(toks) :
                    /\ j = 0 \/ toks[j] # "ws"
                    /\ \A m \in (j + 1)..Len(toks) : toks[m] = "ws")

TrimWs(toks) == TrimWsEnd(From(toks, SkipWs(toks, 1)))

\* raw.match(/```(?:json)?\s*([\s\S]*?)```/): the captured group of the
\* leftmost match, trimmed; the whole text when there is no match.
jsonContent(toks) ==
  LET fences == {i \in 1..Len(toks) : toks[i] = "fence"}
  IN  IF Cardinality(fences) >= 2
      THEN LET open == CHOOSE i \in fences : \A j \in fences : i <= j
               close == CHOOSE i \in fences \ {open} : \A j \in fences \ {open} : i <= j
               afterTag == IF open + 1 < close /\ toks[open + 1] = "jsontag"
                           THEN open + 2 ELSE open + 1
           IN  TrimWs(SubSeq(toks, afterTag, close - 1))
      ELSE toks

\* the JSON object {}
EmptyObject ==
  [t |-> "object", factors |-> [t |-> "falsy", items |-> <<>>],
   marketData |-> [t |-> "falsy", items |-> <<>>],
   estimatedSetupCostMin |-> JUndef, estimatedSetupCostMax |-> JUndef,
   estimatedMonthlyRevenueMin |-> JUndef, estimatedMonthlyRevenueMax |-> JUndef,
   estimatedMonthlyExpensesMin |-> JUndef, estimatedMonthlyExpensesMax |-> JUndef,
   avgProfitMargin |-> JUndef, directCompetitors |-> JUndef,
   indirectCompetitors |-> JUndef, marketSize |-> JUndef, marketGrowth |-> JUndef]

\* a parser that answers an empty object where JSON.parse throws
parseJSONLenient(content) ==
  LET body == TrimWs(jsonContent(content.tokens))
  IN  IF body = <<"obj">> THEN Returned(content.value)
      ELSE Returned(EmptyObject)

\* JSON.parse accepts one JSON text with whitespace around it
parseJSON(content) ==
  LET body == TrimWs(jsonContent(content.tokens))
  IN  IF body = <<"obj">> THEN Returned(content.value)
      ELSE IF body = <<"null">> THEN Returned([t |-> "null"])
      ELSE Thrown("SyntaxError")

(***************************************************************************)
(* MAIN HANDLER: response assembly and error mapping                       *)
(***************************************************************************)
\* x || fallback on strings and arrays held as sequences
OrElse(x, fallback) == IF Len(x) > 0 THEN x ELSE fallback

DataPending == <<"D","a","t","a"," ","p","e","n","d","i","n","g">>

\* f.name.replace(/\s+/g, '')
StripSpaces(s) == SelectSeq(s, LAMBDA c : ~IsSpace(c))

\* Object.fromEntries(factors.map(f => [key(f.name), f.score])): a later
\* factor with the same key overwrites an earlier one
scoringFactorsOf(fs) ==
  [key \in {StripSpaces(fs[i].name) : i \in DOMAIN fs} |->
     fs[CHOOSE i \in DOMAIN fs :
          /\ StripSpaces(fs[i].name) = key
          /\ \A j \in DOMAIN fs : StripSpaces(fs[j].name) = key => j <= i].score]

\* The analysis object of the success response.  Interpolated strings are
\* kept as the tuple of their parts.
\* the decision with the explanation deciding when it has no summary
decisionFromExplanation(sc, ai) ==
  [verdict |-> IF Len(ai.summary) = 0 THEN "CAUTION" ELSE sc.verdict,
   score |-> sc.score, breakEvenMonths |-> sc.breakEvenMonths, roi |-> sc.roi]

\* the decision fields of the response: all of them come from the scoring
decisionOf(sc, ai) ==
  [verdict |-> sc.verdict, score |-> sc.score,
   breakEvenMonths |-> sc.breakEvenMonths, roi |-> sc.roi]

analysisOf(sc, p, ai, businessIdea, location) ==
  [verdict |-> decisionOf(sc, ai).verdict,
   score   |-> decisionOf(sc, ai).score,
   summary |-> OrElse(ai.summary,
                      <<"Analysis complete for ", businessIdea, " in ", location, ".">>),
   scoringFactors |-> scoringFactorsOf(sc.factors),
   dynamicFactors |-> sc.factors,
   marketData     |-> p.marketData,
   marketAnalysis |->
     [size        |-> OrElse(p.marketSize, DataPending),
      growth      |-> OrElse(p.marketGrowth, DataPending),
      competition |-> <<p.directCompetitors, " direct, ", p.indirectCompetitors, " indirect">>,
      explanation |-> ai.marketExplanation],
   financialProjection |->
     [yearlyData      |-> generateYearlyWithMonths(sc.financialProjections),
      breakEvenMonths |-> decisionOf(sc, ai).breakEvenMonths,
      roi             |-> decisionOf(sc, ai).roi,
      explanation     |-> ai.financialExplanation,
      setupCostRange  |-> [min |-> p.estimatedSetupCostMin, max |-> p.estimatedSetupCostMax],
      monthlyRevenueRange  |-> [min |-> p.estimatedMonthlyRevenueMin,
                                max |-> p.estimatedMonthlyRevenueMax],
      monthlyExpensesRange |-> [min |-> p.estimatedMonthlyExpensesMin,
                                max |-> p.estimatedMonthlyExpensesMax]],
   competitionAnalysis |->
     [directCompetitors    |-> p.directCompetitors,
      indirectCompetitors  |-> p.indirectCompetitors,
      competitiveAdvantage |-> ai.competitiveAdvantage,
      threats              |-> ai.threats,
      opportunities        |-> ai.opportunities,
      explanation          |-> ai.competitionExplanation],
   roadmap |-> [phases |-> ai.roadmapPhases, explanation |-> ai.roadmapExplanation],
   risks           |-> ai.risks,
   recommendations |-> ai.recommendations,
   expertInsights  |-> ai.expertInsights]

OkResponse(analysis) == [status |-> 200, kind |-> "analysis", analysis |-> analysis]
ErrorResponse(status, msg) == [status |-> status, kind |-> "error", error |-> msg]
EmptyResponse == [status |-> 200, kind |-> "empty"]

\* the catch block: errorMap[error.message], with its default
errorResponseOf(msg) ==
  CASE msg = "RATE_LIMITED" -> ErrorResponse(429, "Service is busy. Please try again in a moment.")
    [] msg = "CREDITS_EXHAUSTED" -> ErrorResponse(503, "Service temporarily unavailable.")
    [] msg = "SERVICE_CONFIG_ERROR" -> ErrorResponse(503, "Service configuration error.")
    [] msg = "SERVICE_ERROR" ->
         ErrorResponse(503, "Analysis service unavailable. Please try again.")
    [] msg = "EMPTY_RESPONSE" -> ErrorResponse(500, "Analysis incomplete. Please try again.")
    [] OTHER -> ErrorResponse(500, "Analysis failed. Please try again.")

\* pass1_discoverFactorsAndData after its prompt is built: callAI, parseJSON,
\* sanitizePass1; [ok, value] with the parsed data kept beside the result
pass1_discoverFactorsAndData(g) ==
  LET Sanitized(parsed) ==
        IF ~parsed.ok THEN parsed
        ELSE IF sanitizePass1Throws(parsed.value) THEN Thrown("TypeError")
        ELSE [ok |-> TRUE, value |-> sanitizePass1(parsed.value), parsed |-> parsed.value]
      Parsed(c) == IF ~c.ok THEN c ELSE Sanitized(parseJSON(c.value))
  IN  Parsed(callAI(g))

\* pass3_explain after its prompt is built: callAI, parseJSON, sanitizePass3
pass3_explain(g) ==
  LET Sanitized(parsed) ==
        IF ~parsed.ok THEN parsed
        ELSE IF sanitizePass3Throws(parsed.value) THEN Thrown("TypeError")
        ELSE Returned(sanitizePass3(parsed.value))
      Parsed(c) == IF ~c.ok THEN c ELSE Sanitized(parseJSON(c.value))
  IN  Parsed(callAI(g))

\* the scoring variant the deployed revision runs
scoreWith(variant, p, budget, currentYear) ==
  IF variant = "gbdt" THEN pass2_score(p, budget, currentYear)
  ELSE pass2_scoreWA(p, budget, currentYear)

(***************************************************************************)
(* Inputs the model draws from                                             *)
(***************************************************************************)
MaxPad == 1

Repeat(c, n) == [i \in 1..n |-> c]

\* an idea of n letters with w whitespace characters before and after it
Idea(n, w) == Repeat(" ", w) \o Repeat("a", n) \o Repeat(" ", w)

Ideas ==
  {JUndef, JNum(Num(12345678)), JStr(<<>>)}
    \cup {JStr(Idea(n, w)) : n \in {MinIdeaLen - 1, MinIdeaLen, MaxIdeaLen, MaxIdeaLen + 1},
                             w \in 0..MaxPad}

Pune == <<"P","u","n","e">>

Locations ==
  {JUndef, JStr(Pune), JNum(Num(7)), JStr(Repeat("x", MaxLocationLen + 1))}

B_0    == <<"0">>
B_440  == <<"4","4","0">>
B_490  == <<"4","9","0">>
B_500  == <<"5","0","0">>
B_990  == <<"9","9","0">>
B_1000 == <<"RUPEE","1",",","0","0","0">>
B_2k   == <<"2","k">>
B_1l   == <<"1"," ","L">>
B_dot  == <<".">>
B_text == <<"a","s","k">>

BudgetStrings == {B_0, B_440, B_490, B_500, B_990, B_1000, B_2k, B_1l, B_dot, B_text, NotSpecified}

RequestBudgets ==
  {JUndef, JStr(B_440), JStr(B_1l), JNum(Num(5)), JStr(Repeat("9", MaxBudgetLen + 1))}

Bodies ==
  {[t |-> "other", businessIdea |-> JUndef, location |-> JUndef, budget |-> JUndef]}
    \cup {[t |-> "object", businessIdea |-> i, location |-> l, budget |-> b] :
            i \in Ideas, l \in Locations, b \in RequestBudgets}

NoBody == [t |-> "other", businessIdea |-> JUndef, location |-> JUndef, budget |-> JUndef]

\* method, whether an Authorization: Bearer header is present, whether the
\* body is JSON text, and the parsed body
Requests ==
  {[method |-> "OPTIONS", bearer |-> FALSE, json |-> FALSE, body |-> NoBody],
   [method |-> "POST", bearer |-> FALSE, json |-> TRUE, body |-> NoBody],
   [method |-> "POST", bearer |-> TRUE, json |-> FALSE, body |-> NoBody]}
    \cup {[method |-> "POST", bearer |-> TRUE, json |-> TRUE, body |-> b] : b \in Bodies}

Years == {2026}

\* --- Pass-1 payloads ---
N_Rent   == <<"R","e","n","t">>
N_Foot   == <<"F","o","o","t"," ","f","a","l","l">>
N_Talent == <<"<","b",">","T","a","l","e","n","t">>
N_Water  == <<"W","a","t","e","r">>

RawFactor(name, weight, score, loc) ==
  [t |-> "object", name |-> JStr(name), weight |-> weight, score |-> score,
   reasoning |-> JStr(<<"o","k">>), isLocationSpecific |-> loc]

NullItem == [t |-> "null"]

Arr(items) == [t |-> "array", items |-> items]
Falsy      == [t |-> "falsy", items |-> <<>>]
Other      == [t |-> "other", items |-> <<>>]

FactorHi(name, loc) == RawFactor(name, JNum(Fin(1, 4)), JNum(Num(90)), JBool(loc))

F_one  == Arr(<<RawFactor(N_Rent, JNum(Num(1)), JNum(Num(90)), JBool(TRUE))>>)
F_hi   == Arr(<<FactorHi(N_Rent, FALSE), FactorHi(N_Foot, TRUE),
                FactorHi(N_Talent, FALSE), FactorHi(N_Water, FALSE)>>)
F_lo   == Arr(<<RawFactor(N_Rent, JNum(Fin(4, 10)), JNum(Num(20)), JBool(FALSE)),
                RawFactor(N_Foot, JNum(Fin(3, 10)), JNum(Num(30)), JBool(TRUE)),
                RawFactor(N_Talent, JNum(Fin(2, 10)), JNum(Num(10)), JBool(FALSE)),
                RawFactor(N_Water, JNum(Fin(2, 10)), JNum(Num(40)), JBool(FALSE))>>)
F_mix  == Arr(<<RawFactor(N_Rent, JNum(Fin(3, 2)), JNum(Num(150)), JStr(<<"y">>)),
                RawFactor(N_Foot, JUndef, JStr(<<"a","b","c">>), JNum(Num(0))),
                RawFactor(N_Talent, JStr(<<"0",".","5">>), JNum(Fin(199, 2)), JUndef),
                RawFactor(N_Water, JNum(Num(-1)), JNum(Num(-5)), JNull),
                RawFactor(N_Rent, JNum(PosInf), JNum(PosInf), JBool(FALSE)),
                RawFactor(N_Rent, JNum(Fin(1, 2)), JStr(<<"6","1">>), JBool(FALSE))>>)
F_zero == Arr(<<RawFactor(N_Rent, JNum(Num(0)), JNum(Num(80)), JBool(FALSE)),
                RawFactor(N_Foot, JNum(Num(0)), JNum(Num(70)), JBool(FALSE)),
                RawFactor(N_Talent, JNum(Num(0)), JNum(Num(60)), JBool(FALSE)),
                RawFactor(N_Water, JNum(Num(0)), JNum(Num(90)), JBool(FALSE))>>)
F_nine   == Arr([i \in 1..9 |-> RawFactor(N_Rent, JNum(Fin(1, 9)), JNum(Num(50 + 5 * i)), JBool(i = 9))])
F_eleven == Arr([i \in 1..(MaxFactors + 1) |->
                   RawFactor(N_Foot, JNum(Fin(1, 10)), JNum(Num(40 + 5 * i)), JBool(FALSE))])

FactorLists == {Falsy, F_one, F_hi, F_lo, F_mix, F_zero, F_nine, F_eleven}

Pair(a, b) == [min |-> a, max |-> b]

Costs == {Pair(JNum(Num(1000)), JNum(Num(3000))),
          Pair(JUndef, JStr(<<"a","b","c">>)),
          Pair(JNum(Num(-5)), JNum(Num(4005))),
          Pair(JNum(Num(1000)), JNum(PosInf))}

\* [revenue, expenses]
Cashflows == {[rev |-> Pair(JNum(Num(3000)), JNum(Num(3000))),
               exp |-> Pair(JNum(Num(1000)), JNum(Num(1000)))],
              [rev |-> Pair(JNum(Num(1000)), JNum(Num(1001))),
               exp |-> Pair(JNum(Num(2990)), JNum(Num(3012)))],
              [rev |-> Pair(JUndef, JNull), exp |-> Pair(JUndef, JNum(Num(-9)))],
              [rev |-> Pair(JNum(PosInf), JNum(Num(5))),
               exp |-> Pair(JNum(PosInf), JNum(Num(5)))]}

Margins == {JNum(Fin(4, 10)), JNum(Fin(3, 2)), JStr(<<"x">>)}

\* [direct, indirect]
Competitors == {[d |-> JNum(Num(5)), i |-> JNum(Num(4))],
                [d |-> JNum(Fin(81, 2)), i |-> JStr(<<"3","0">>)]}

G_20   == <<"2","0","%">>
G_text == <<"g","r","o","w","i","n","g">>
G_dot  == <<"u","p"," ","."," ","%">>

Growths == {JStr(G_20), JStr(G_text), JStr(G_dot)}

RawPayload(fs, c, cf, m, k, g) ==
  [t |-> "object", factors |-> fs, marketData |-> Falsy,
   estimatedSetupCostMin |-> c.min, estimatedSetupCostMax |-> c.max,
   estimatedMonthlyRevenueMin |-> cf.rev.min, estimatedMonthlyRevenueMax |-> cf.rev.max,
   estimatedMonthlyExpensesMin |-> cf.exp.min, estimatedMonthlyExpensesMax |-> cf.exp.max,
   avgProfitMargin |-> m, directCompetitors |-> k.d, indirectCompetitors |-> k.i,
   marketSize |-> JStr(<<"b","i","g">>), marketGrowth |-> g]

BestCost     == Pair(JNum(Num(1000)), JNum(Num(3000)))
BestCashflow == [rev |-> Pair(JNum(Num(3000)), JNum(Num(3000))),
                 exp |-> Pair(JNum(Num(1000)), JNum(Num(1000)))]
BestMargin   == JNum(Fin(4, 10))
FewCompetitors == [d |-> JNum(Num(5)), i |-> JNum(Num(4))]

\* the payloads the scoring harness draws from
HarnessPayloads ==
  {RawPayload(fs, c, BestCashflow, BestMargin, FewCompetitors, JStr(G_20)) :
     fs \in FactorLists, c \in Costs}
  \cup {RawPayload(fs, BestCost, cf, m, k, g) :
          fs \in {F_hi, F_lo}, cf \in Cashflows, m \in Margins, k \in Competitors, g \in Growths}

\* --- gateway outcomes ---
Gateway(key, net, status, tokens, value) ==
  [key |-> key, net |-> net, status |-> status,
   content |-> [tokens |-> tokens, value |-> value]]

NoData == [t |-> "null"]

FailingGateways ==
  {Gateway(FALSE, "ok", 200, <<"obj">>, NoData),
   Gateway(TRUE, "throw", 200, <<"obj">>, NoData),
   Gateway(TRUE, "ok", 429, <<>>, NoData),
   Gateway(TRUE, "ok", 402, <<>>, NoData),
   Gateway(TRUE, "ok", 500, <<>>, NoData),
   Gateway(TRUE, "ok", 200, <<>>, NoData),
   Gateway(TRUE, "ok", 200, <<"prose">>, NoData),
   Gateway(TRUE, "ok", 200, <<"fence", "jsontag", "ws", "prose", "fence">>, NoData),
   Gateway(TRUE, "ok", 200, <<"null">>, NoData)}

\* the ways a completion can carry the JSON object v
Wrappings(v) ==
  {Gateway(TRUE, "ok", 200, <<"obj">>, v),
   Gateway(TRUE, "ok", 200, <<"ws", "obj", "ws">>, v),
   Gateway(TRUE, "ok", 200, <<"prose", "ws", "fence", "jsontag", "ws", "obj", "ws", "fence">>, v),
   Gateway(TRUE, "ok", 200, <<"fence", "ws", "obj", "fence", "prose">>, v),
   Gateway(TRUE, "ok", 200, <<"prose", "ws", "obj">>, v)}

HandlerPayloads ==
  {RawPayload(fs, BestCost, BestCashflow, BestMargin, FewCompetitors, JStr(G_20)) :
     fs \in {F_hi, F_lo, F_mix, F_eleven, Falsy, Other, Arr(<<FactorHi(N_Rent, TRUE), NullItem>>)}}

Pass1Gateways ==
  FailingGateways
    \cup Wrappings(RawPayload(F_hi, BestCost, BestCashflow, BestMargin, FewCompetitors, JStr(G_20)))
    \cup {Gateway(TRUE, "ok", 200, <<"obj">>, v) : v \in HandlerPayloads}

\* --- Pass-3 payloads ---
T_plain  == <<"G","o","o","d">>
T_script == <<"<","s","c","r","i","p","t",">","x","<","/","s","c","r","i","p","t",">">>

RawRisk(sev) == [t |-> "object", risk |-> JStr(T_plain), severity |-> JStr(sev),
                 mitigation |-> JStr(T_plain)]

RawPhase == [t |-> "object", phase |-> JStr(T_plain), duration |-> JStr(T_plain),
             tasks |-> Arr(<<JStr(T_plain), JStr(T_script)>>), milestones |-> Other]

RawExplanation(text, list, risks, phases, score, verdict) ==
  [t |-> "object", summary |-> text, marketExplanation |-> text,
   competitionExplanation |-> text, financialExplanation |-> text,
   competitiveAdvantage |-> text, threats |-> list, opportunities |-> list,
   risks |-> risks, recommendations |-> list, roadmapPhases |-> phases,
   roadmapExplanation |-> text, expertInsights |-> text,
   score |-> score, verdict |-> verdict]

Explanations ==
  {RawExplanation(JStr(T_plain), Arr(<<JStr(T_plain)>>), Arr(<<RawRisk(SevLow)>>),
                  Arr(<<RawPhase>>), JUndef, JUndef),
   RawExplanation(JStr(T_script), Arr(<<JStr(T_script), JNum(Num(3))>>),
                  Arr([i \in 1..(MaxRisks + 1) |-> RawRisk(SevHigh)]),
                  Arr(<<RawPhase, NullItem>>), JNum(Num(99)), JStr(<<"G","O">>)),
   RawExplanation(JUndef, Other, Other, Other, JNum(Num(0)), JStr(<<"A","V","O","I","D">>))}

Pass3Gateways ==
  {Gateway(TRUE, "ok", 429, <<>>, NoData),
   Gateway(TRUE, "ok", 200, <<>>, NoData),
   Gateway(TRUE, "ok", 200, <<"prose">>, NoData),
   Gateway(TRUE, "ok", 200, <<"null">>, NoData)}
    \cup {Gateway(TRUE, "ok", 200, <<"fence", "jsontag", "ws", "obj", "ws", "fence">>, v) :
            v \in Explanations}

(***************************************************************************)
(* MAIN HANDLER: one request, one step per await                           *)
(***************************************************************************)
NoCalls == [fetch |-> 0, ai |-> 0, pass2 |-> 0, pass3 |-> 0]

Init ==
  /\ pc = "recv"
  /\ req \in Requests
  /\ env \in [variant : {"gbdt", "wa"}, year : {0}, user : {"pending"},
              pass1 : {"pending"}, pass3 : {"pending"}, gateways : {<<>>}]
  /\ valid = NoValue
  /\ raw = NoValue
  /\ pass1 = NoValue
  /\ scoring = NoValue
  /\ expl = NoValue
  /\ response = NoValue
  /\ calls = NoCalls
  /\ sIn = <<>>
  /\ sOut = <<>>
  /\ again = NoValue
  /\ yearly = NoValue
  /\ inFlight = NoValue
  /\ realTimeData = NoValue
  /\ suspended = NoValue

Respond(r) == response' = r /\ pc' = "done"

\* the CORS preflight
Options ==
  /\ pc = "recv" /\ req.method = "OPTIONS"
  /\ Respond(EmptyResponse)
  /\ UNCHANGED <<req, env, valid, raw, pass1, scoring, expl, calls, sIn, sOut,
               again, yearly, inFlight, realTimeData, suspended>>

AuthHeaderMissing ==
  /\ pc = "recv" /\ req.method # "OPTIONS" /\ ~req.bearer
  /\ Respond(ErrorResponse(401, "Authentication required"))
  /\ UNCHANGED <<req, env, valid, raw, pass1, scoring, expl, calls, sIn, sOut,
               again, yearly, inFlight, realTimeData, suspended>>

\* auth.getUser(token) answers with an error or no user
AuthRejected ==
  /\ pc = "recv" /\ req.method # "OPTIONS" /\ req.bearer
  /\ env' = [env EXCEPT !.user = "invalid"]
  /\ Respond(ErrorResponse(401, "Invalid or expired token"))
  /\ UNCHANGED <<req, valid, raw, pass1, scoring, expl, calls, sIn, sOut,
               again, yearly, inFlight, realTimeData, suspended>>

Authenticated ==
  /\ pc = "recv" /\ req.method # "OPTIONS" /\ req.bearer
  /\ env' = [env EXCEPT !.user = "ok"]
  /\ pc' = "authed"
  /\ UNCHANGED <<req, valid, raw, pass1, scoring, expl, response, calls, sIn, sOut,
               again, yearly, inFlight, realTimeData, suspended>>

\* req.json() rejects
BodyNotJson ==
  /\ pc = "authed" /\ ~req.json
  /\ Respond(ErrorResponse(400, "Invalid JSON body"))
  /\ UNCHANGED <<req, env, valid, raw, pass1, scoring, expl, calls, sIn, sOut,
               again, yearly, inFlight, realTimeData, suspended>>

ValidationFailed ==
  /\ pc = "authed" /\ req.json
  /\ \E validation \in {validateInput(req.body)} :
       /\ ~validation.valid
       /\ Respond(ErrorResponse(400, validation.error))
  /\ UNCHANGED <<req, env, valid, raw, pass1, scoring, expl, calls, sIn, sOut,
               again, yearly, inFlight, realTimeData, suspended>>

Validated ==
  /\ pc = "authed" /\ req.json
  /\ \E validation \in {validateInput(req.body)} :
       /\ validation.valid
       /\ valid' = validation.data
  /\ pc' = "fetch"
  /\ UNCHANGED <<req, env, raw, pass1, scoring, expl, response, calls, sIn, sOut,
               again, yearly, inFlight, realTimeData, suspended>>

\* PRE-PASS: fetchRealTimeData settles (it never rejects)
FetchRealTimeData ==
  /\ pc = "fetch"
  /\ calls' = [calls EXCEPT !.fetch = @ + 1]
  /\ pc' = "pass1"
  /\ UNCHANGED <<req, env, valid, raw, pass1, scoring, expl, response, sIn, sOut,
               again, yearly, inFlight, realTimeData, suspended>>

\* PASS 1 throws: the catch block answers
Pass1FailedFrom(gateways) ==
  /\ pc = "pass1"
  /\ \E g \in gateways : \E r \in {pass1_discoverFactorsAndData(g)} :
       /\ ~r.ok
       /\ Respond(errorResponseOf(r.error))
       /\ env' = [env EXCEPT !.pass1 = "failed", !.gateways = Append(@, g)]
  /\ calls' = [calls EXCEPT !.ai = @ + 1]
  /\ UNCHANGED <<req, valid, raw, pass1, scoring, expl, sIn, sOut,
               again, yearly, inFlight, realTimeData, suspended>>

Pass1Failed == Pass1FailedFrom(Pass1Gateways)

Pass1DoneFrom(gateways) ==
  /\ pc = "pass1"
  /\ \E g \in gateways : \E r \in {pass1_discoverFactorsAndData(g)} :
       /\ r.ok
       /\ raw' = r.parsed
       /\ pass1' = r.value
       /\ env' = [env EXCEPT !.pass1 = "ok", !.gateways = Append(@, g)]
  /\ calls' = [calls EXCEPT !.ai = @ + 1]
  /\ pc' = "pass2"
  /\ UNCHANGED <<req, valid, scoring, expl, response, sIn, sOut,
               again, yearly, inFlight, realTimeData, suspended>>

Pass1Done == Pass1DoneFrom(Pass1Gateways)

\* PASS 2: deterministic scoring, reading the clock for the projection years
Pass2 ==
  /\ pc = "pass2"
  /\ \E y \in Years :
       /\ scoring' = scoreWith(env.variant, pass1, valid.budget, y)
       /\ env' = [env EXCEPT !.year = y]
  /\ calls' = [calls EXCEPT !.pass2 = @ + 1]
  /\ pc' = "pass3"
  /\ UNCHANGED <<req, valid, raw, pass1, expl, response, sIn, sOut,
               again, yearly, inFlight, realTimeData, suspended>>

\* PASS 3 throws: the catch block answers
Pass3FailedFrom(gateways) ==
  /\ pc = "pass3"
  /\ \E g \in gateways : \E r \in {pass3_explain(g)} :
       /\ ~r.ok
       /\ Respond(errorResponseOf(r.error))
       /\ env' = [env EXCEPT !.pass3 = "failed", !.gateways = Append(@, g)]
  /\ calls' = [calls EXCEPT !.ai = @ + 1, !.pass3 = @ + 1]
  /\ UNCHANGED <<req, valid, raw, pass1, scoring, expl, sIn, sOut,
               again, yearly, inFlight, realTimeData, suspended>>

Pass3Failed == Pass3FailedFrom(Pass3Gateways)

\* PASS 3 returns; the final response is assembled
Pass3DoneFrom(gateways) ==
  /\ pc = "pass3"
  /\ \E g \in gateways : \E r \in {pass3_explain(g)} :
       /\ r.ok
       /\ expl' = r.value
       /\ Respond(OkResponse(analysisOf(scoring, pass1, r.value,
                                        valid.businessIdea, valid.location)))
       /\ env' = [env EXCEPT !.pass3 = "ok", !.gateways = Append(@, g)]
  /\ calls' = [calls EXCEPT !.ai = @ + 1, !.pass3 = @ + 1]
  /\ UNCHANGED <<req, valid, raw, pass1, scoring, sIn, sOut,
               again, yearly, inFlight, realTimeData, suspended>>

Pass3Done == Pass3DoneFrom(Pass3Gateways)

Next ==
  \/ Options
  \/ AuthHeaderMissing
  \/ AuthRejected
  \/ Authenticated
  \/ BodyNotJson
  \/ ValidationFailed
  \/ Validated
  \/ FetchRealTimeData
  \/ Pass1Failed
  \/ Pass1Done
  \/ Pass2
  \/ Pass3Failed
  \/ Pass3Done

Spec == Init /\ [][Next]_vars

(***************************************************************************)
(* TWO REQUESTS: Deno.serve starts one activation of the handler for every *)
(* request.  One activation runs at a time; at an await, or once it has    *)
(* answered, the event loop may continue another one.  The variables of    *)
(* the handler are its locals: continuing the other activation exchanges   *)
(* them for the locals that activation was suspended with.  The module     *)
(* itself declares only constants.                                         *)
(***************************************************************************)
\* the locals of the running activation
Locals ==
  [pc |-> pc, req |-> req, env |-> env, valid |-> valid, raw |-> raw, pass1 |-> pass1,
   scoring |-> scoring, expl |-> expl, response |-> response, calls |-> calls]

\* pass2_score runs right after Pass 1 has returned, without an await
AtAwaitOrDone == pc # "pass2"

\* a bug to compare with: the validated input kept in a variable of the
\* module instead of a local of the handler
ResumeWithSharedInput ==
  /\ suspended # NoValue
  /\ AtAwaitOrDone
  /\ suspended.pc # "done"
  /\ suspended' = Locals
  /\ pc' = suspended.pc
  /\ req' = suspended.req
  /\ env' = suspended.env
  /\ valid' = valid
  /\ raw' = suspended.raw
  /\ pass1' = suspended.pass1
  /\ scoring' = suspended.scoring
  /\ expl' = suspended.expl
  /\ response' = suspended.response
  /\ calls' = suspended.calls
  /\ UNCHANGED <<sIn, sOut, again, yearly, inFlight, realTimeData>>

\* the event loop continues the other activation
Resume ==
  /\ suspended # NoValue
  /\ AtAwaitOrDone
  /\ suspended.pc # "done"
  /\ suspended' = Locals
  /\ pc' = suspended.pc
  /\ req' = suspended.req
  /\ env' = suspended.env
  /\ valid' = suspended.valid
  /\ raw' = suspended.raw
  /\ pass1' = suspended.pass1
  /\ scoring' = suspended.scoring
  /\ expl' = suspended.expl
  /\ response' = suspended.response
  /\ calls' = suspended.calls
  /\ UNCHANGED <<sIn, sOut, again, yearly, inFlight, realTimeData>>

PairBody(budget) ==
  [t |-> "object", businessIdea |-> JStr(Idea(MinIdeaLen, 0)), location |-> JStr(Pune),
   budget |-> JStr(budget)]

PairRequests ==
  {[method |-> "OPTIONS", bearer |-> FALSE, json |-> FALSE, body |-> NoBody],
   [method |-> "POST", bearer |-> FALSE, json |-> TRUE, body |-> NoBody],
   [method |-> "POST", bearer |-> TRUE, json |-> FALSE, body |-> NoBody],
   [method |-> "POST", bearer |-> TRUE, json |-> TRUE, body |-> NoBody],
   [method |-> "POST", bearer |-> TRUE, json |-> TRUE, body |-> PairBody(B_440)],
   [method |-> "POST", bearer |-> TRUE, json |-> TRUE, body |-> PairBody(B_1l)]}

PairPass1Gateways ==
  {Gateway(TRUE, "ok", 429, <<>>, NoData)}
    \cup {Gateway(TRUE, "ok", 200, <<"obj">>,
                  RawPayload(fs, BestCost, BestCashflow, BestMargin, FewCompetitors,
                             JStr(G_20))) : fs \in {F_hi, F_lo}}

PairPass3Gateways ==
  {Gateway(TRUE, "ok", 200, <<>>, NoData),
   Gateway(TRUE, "ok", 200, <<"obj">>,
           RawExplanation(JStr(T_plain), Arr(<<JStr(T_plain)>>), Arr(<<RawRisk(SevLow)>>),
                          Arr(<<RawPhase>>), JUndef, JUndef))}

\* a request that has arrived
Arrived(request) ==
  [pc |-> "recv", req |-> request,
   env |-> [variant |-> "gbdt", year |-> 0, user |-> "pending", pass1 |-> "pending",
            pass3 |-> "pending", gateways |-> <<>>],
   valid |-> NoValue, raw |-> NoValue, pass1 |-> NoValue, scoring |-> NoValue,
   expl |-> NoValue, response |-> NoValue, calls |-> NoCalls]

\* two requests have arrived; neither has been looked at
InitPair ==
  /\ pc = "recv"
  /\ req \in PairRequests
  /\ env = Arrived(req).env
  /\ valid = NoValue
  /\ raw = NoValue
  /\ pass1 = NoValue
  /\ scoring = NoValue
  /\ expl = NoValue
  /\ response = NoValue
  /\ calls = NoCalls
  /\ sIn = <<>>
  /\ sOut = <<>>
  /\ again = NoValue
  /\ yearly = NoValue
  /\ inFlight = NoValue
  /\ realTimeData = NoValue
  /\ suspended \in {Arrived(request) : request \in PairRequests}

PairPass1Failed == Pass1FailedFrom(PairPass1Gateways)
PairPass1Done   == Pass1DoneFrom(PairPass1Gateways)
PairPass3Failed == Pass3FailedFrom(PairPass3Gateways)
PairPass3Done   == Pass3DoneFrom(PairPass3Gateways)

NextPair ==
  \/ Options
  \/ AuthHeaderMissing
  \/ AuthRejected
  \/ Authenticated
  \/ BodyNotJson
  \/ ValidationFailed
  \/ Validated
  \/ FetchRealTimeData
  \/ PairPass1Failed
  \/ PairPass1Done
  \/ Pass2
  \/ PairPass3Failed
  \/ PairPass3Done
  \/ Resume

SpecPair == InitPair /\ [][NextPair]_vars

\* the response to a request handled from its arrival to its answer with
\* nothing in between, the collaborators answering as in outcomes
answerAfterPass1(data, outcomes, p1) ==
  IF ~pass3_explain(outcomes.gateways[2]).ok
  THEN errorResponseOf(pass3_explain(outcomes.gateways[2]).error)
  ELSE OkResponse(analysisOf(scoreWith(outcomes.variant, p1, data.budget, outcomes.year),
                             p1, pass3_explain(outcomes.gateways[2]).value,
                             data.businessIdea, data.location))

answerAfterValidation(data, outcomes) ==
  IF ~pass1_discoverFactorsAndData(outcomes.gateways[1]).ok
  THEN errorResponseOf(pass1_discoverFactorsAndData(outcomes.gateways[1]).error)
  ELSE answerAfterPass1(data, outcomes,
                        pass1_discoverFactorsAndData(outcomes.gateways[1]).value)

responseAlone(request, outcomes) ==
  IF request.method = "OPTIONS" THEN EmptyResponse
  ELSE IF ~request.bearer THEN ErrorResponse(401, "Authentication required")
  ELSE IF outcomes.user = "invalid" THEN ErrorResponse(401, "Invalid or expired token")
  ELSE IF ~request.json THEN ErrorResponse(400, "Invalid JSON body")
  ELSE IF ~validateInput(request.body).valid
  THEN ErrorResponse(400, validateInput(request.body).error)
  ELSE answerAfterValidation(validateInput(request.body).data, outcomes)

(***************************************************************************)
(* The scoring harness: a raw Pass-1 payload and a budget string are       *)
(* drawn, sanitizePass1 and then pass2_score are applied.                  *)
(***************************************************************************)
HarnessYears == {2026}
\* the years in which a later invocation can fall
LaterYears == {2026, 2027}

InitScore ==
  /\ pc = "h_raw"
  /\ req = [method |-> "POST", bearer |-> TRUE, json |-> TRUE, body |-> NoBody]
  /\ env \in [variant : {"gbdt", "wa"}, year : HarnessYears, user : {"ok"},
              pass1 : {"ok"}, pass3 : {"pending"}]
  /\ \E b \in BudgetStrings :
       valid = [businessIdea |-> Idea(MinIdeaLen, 0), location |-> NotSpecified, budget |-> b]
  /\ raw \in HarnessPayloads
  /\ pass1 = NoValue
  /\ scoring = NoValue
  /\ expl = NoValue
  /\ response = NoValue
  /\ calls = NoCalls
  /\ sIn = <<>>
  /\ sOut = <<>>
  /\ again = NoValue
  /\ yearly = NoValue
  /\ inFlight = NoValue
  /\ realTimeData = NoValue
  /\ suspended = NoValue

HarnessSanitize ==
  /\ pc = "h_raw" /\ ~sanitizePass1Throws(raw)
  /\ pass1' = sanitizePass1(raw)
  /\ pc' = "h_sanitized"
  /\ UNCHANGED <<req, env, valid, raw, scoring, expl, response, calls, sIn, sOut,
               again, yearly, inFlight, realTimeData, suspended>>

HarnessScore ==
  /\ pc = "h_sanitized"
  /\ scoring' = scoreWith(env.variant, pass1, valid.budget, env.year)
  /\ pc' = "h_scored"
  /\ UNCHANGED <<req, env, valid, raw, pass1, expl, response, calls, sIn, sOut,
               again, yearly, inFlight, realTimeData, suspended>>

\* the handler attaches the monthly breakdown to the projections
HarnessMonths ==
  /\ pc = "h_scored"
  /\ yearly' = generateYearlyWithMonths(scoring.financialProjections)
  /\ pc' = "h_months"
  /\ UNCHANGED <<req, env, valid, raw, pass1, scoring, expl, response, calls, sIn, sOut,
               again, inFlight, realTimeData, suspended>>

\* pass2_score is invoked a second time on the same payload and budget, at a
\* time of its own: new Date().getFullYear() answers y
HarnessScoreAgain ==
  /\ pc = "h_months"
  /\ \E y \in LaterYears : again' = scoreWith(env.variant, pass1, valid.budget, y)
  /\ pc' = "h_again"
  /\ UNCHANGED <<req, env, valid, raw, pass1, scoring, expl, response, calls, sIn, sOut,
               yearly, inFlight, realTimeData, suspended>>

NextScore == HarnessSanitize \/ HarnessScore \/ HarnessMonths \/ HarnessScoreAgain

SpecScore == InitScore /\ [][NextScore]_vars

(***************************************************************************)
(* The sanitizer harness: a string is put together from chunks and         *)
(* sanitizeString is applied to it, and then to its own output.            *)
(***************************************************************************)
MaxChunks == 3

Chunks == {<<"j","a","v","a">>, <<"s","c","r","i","p","t",":">>,
           <<"j","a","v","a","s","c","r","i","p","t",":">>,
           <<"<">>, <<">">>, <<"o","n">>, <<"x">>, <<"=">>, <<"&">>, <<"#">>, <<" ">>}

RECURSIVE Concatenations(_)
\* the strings made of at most n chunks
Concatenations(n) ==
  IF n = 0 THEN {<<>>}
  ELSE Concatenations(n - 1) \cup {s \o c : s \in Concatenations(n - 1), c \in Chunks}

HarnessIdle ==
  /\ req = [method |-> "POST", bearer |-> TRUE, json |-> TRUE, body |-> NoBody]
  /\ env = [variant |-> "gbdt", year |-> 0, user |-> "ok", pass1 |-> "pending",
            pass3 |-> "pending"]
  /\ valid = NoValue
  /\ raw = NoValue
  /\ pass1 = NoValue
  /\ scoring = NoValue
  /\ expl = NoValue
  /\ response = NoValue
  /\ calls = NoCalls
  /\ again = NoValue
  /\ yearly = NoValue
  /\ inFlight = NoValue
  /\ realTimeData = NoValue
  /\ suspended = NoValue

InitSan ==
  /\ pc = "s_in"
  /\ sIn \in Concatenations(MaxChunks)
  /\ sOut = <<>>
  /\ HarnessIdle

SanitizeOnce ==
  /\ pc = "s_in"
  /\ sOut' = <<sanitizeString(sIn)>>
  /\ pc' = "s_once"
  /\ UNCHANGED <<req, env, valid, raw, pass1, scoring, expl, response, calls, sIn,
               again, yearly, inFlight, realTimeData, suspended>>

SanitizeAgain ==
  /\ pc = "s_once"
  /\ sOut' = Append(sOut, sanitizeString(sOut[1]))
  /\ pc' = "s_twice"
  /\ UNCHANGED <<req, env, valid, raw, pass1, scoring, expl, response, calls, sIn,
               again, yearly, inFlight, realTimeData, suspended>>

NextSan == SanitizeOnce \/ SanitizeAgain

SpecSan == InitSan /\ [][NextSan]_vars

(***************************************************************************)
(* The budget harness: a budget string is written as an optional currency  *)
(* symbol, a decimal number, optional space and a unit suffix, or is one   *)
(* of the strings that hold no amount; parseBudget is applied to it.       *)
(***************************************************************************)
Currencies == {<<>>, <<"RUPEE">>, <<"$">>, <<"$", " ">>}

\* a decimal number as written, and its value
Amounts ==
  {[text |-> <<"5">>, value |-> Num(5)],
   [text |-> <<"2",".","5">>, value |-> Fin(5, 2)],
   [text |-> <<"1",",","2">>, value |-> Num(12)],
   [text |-> <<".","7","5">>, value |-> Fin(3, 4)],
   [text |-> <<"0">>, value |-> Num(0)]}

Gaps == {<<>>, <<" ">>}

\* a unit suffix as written, and its multiplier
Units ==
  {[text |-> <<"l","a","k","h">>, mult |-> 100000],
   [text |-> <<"L","a","k","h","s">>, mult |-> 100000],
   [text |-> <<"L","A","C">>, mult |-> 100000],
   [text |-> <<"c","r","o","r","e">>, mult |-> 10000000],
   [text |-> <<"C","r">>, mult |-> 10000000],
   [text |-> <<"l">>, mult |-> 100000],
   [text |-> <<"L">>, mult |-> 100000],
   [text |-> <<"k">>, mult |-> 1000],
   [text |-> <<"K">>, mult |-> 1000]}

NoUnit == [text |-> <<>>, mult |-> 1]

\* strings that hold no amount
NoAmounts == {<<>>, NotSpecified, <<"a","s","k">>, <<".">>, <<".",".", "k">>,
              <<"RUPEE">>, <<"l","a","k","h">>}

\* the budget as the user typed it
BudgetText(b) == b.currency \o b.amount.text \o b.gap \o b.unit.text

HarnessBudgets ==
  [kind : {"amount"}, currency : Currencies, amount : Amounts, gap : Gaps,
   unit : Units \cup {NoUnit}, text : {<<>>}]
    \cup [kind : {"none"}, currency : {<<>>}, amount : {[text |-> <<>>, value |-> NaN]},
          gap : {<<>>}, unit : {NoUnit}, text : NoAmounts]

\* the string handed to parseBudget
BudgetInput(b) == IF b.kind = "amount" THEN BudgetText(b) ELSE b.text

InitBudget ==
  /\ pc = "b_in"
  /\ sIn \in HarnessBudgets
  /\ sOut = <<>>
  /\ HarnessIdle

HarnessParseBudget ==
  /\ pc = "b_in"
  /\ sOut' = <<parseBudget(BudgetInput(sIn))>>
  /\ pc' = "b_out"
  /\ UNCHANGED <<req, env, valid, raw, pass1, scoring, expl, response, calls, sIn,
               again, yearly, inFlight, realTimeData, suspended>>

NextBudget == HarnessParseBudget

SpecBudget == InitBudget /\ [][NextBudget]_vars

(***************************************************************************)
(* REAL-TIME DATA: fetchRealTimeData and its three sources                 *)
(*                                                                         *)
(* A text is a sequence of lines, each [line, about]: the kind of the line *)
(* and the name it quotes (<<>> when it quotes none); '' is <<>>.          *)
(***************************************************************************)
Line(kind, about) == [line |-> kind, about |-> about]

IsListSep(c) == c = "," \/ IsSpace(c)

\* the maximal runs of s that hold no separator, in order: what split gives
\* once its empty strings, which match no key and which filter(Boolean)
\* drops, are left out
Tokens(s) ==
  LET starts == {i \in 1..Len(s) : ~IsListSep(s[i]) /\ (i = 1 \/ IsListSep(s[i - 1]))}
      endOf(i) == CHOOSE e \in i..Len(s) :
                    /\ \A m \in i..e : ~IsListSep(s[m])
                    /\ e = Len(s) \/ IsListSep(s[e + 1])
      start(k) == CHOOSE i \in starts : Cardinality({j \in starts : j < i}) = k - 1
  IN  [k \in 1..Cardinality(starts) |-> SubSeq(s, start(k), endOf(start(k)))]

\* location.replace(/,/g, ' ').split(/\s+/).filter(Boolean), last part or ''
cityNameOf(location) ==
  LET locationParts == Tokens(location)
  IN  IF Len(locationParts) > 0 THEN locationParts[Len(locationParts)] ELSE <<>>

\* cityName || location
lookupNameOf(location) ==
  IF Len(cityNameOf(location)) > 0 THEN cityNameOf(location) ELSE location

K_mumbai == <<"m","u","m","b","a","i">>
K_pune   == <<"p","u","n","e">>
K_hsr    == <<"h","s","r"," ","l","a","y","o","u","t">>

\* three of the entries of the table; growthRate in tenths of a percent
INDIA_CITY_POPULATION ==
  (K_mumbai :> [population2011 |-> 12442373, metro2011 |-> 20748395, growthRate |-> 12,
                tier |-> "Tier 1", state |-> "Maharashtra"])
  @@ (K_pune :> [population2011 |-> 3124458, metro2011 |-> 7276000, growthRate |-> 25,
                 tier |-> "Tier 1", state |-> "Maharashtra"])
  @@ (K_hsr :> [population2011 |-> 8443675, metro2011 |-> 10456000, growthRate |-> 35,
                tier |-> "Tier 1", state |-> "Karnataka"])

\* the key found for the normalized location: the location itself, else its
\* first word that is a key, else <<>>
cityKeyOf(normalizedLocation) ==
  LET words == Tokens(normalizedLocation)
  IN  IF normalizedLocation \in DOMAIN INDIA_CITY_POPULATION THEN normalizedLocation
      ELSE IF \E i \in DOMAIN words : words[i] \in DOMAIN INDIA_CITY_POPULATION
      THEN words[CHOOSE i \in DOMAIN words :
                   /\ words[i] \in DOMAIN INDIA_CITY_POPULATION
                   /\ \A j \in 1..(i - 1) : words[j] \notin DOMAIN INDIA_CITY_POPULATION]
      ELSE <<>>

\* the text fetchCityPopulationData returns; the demographics lines are
\* written from the entry of the key
fetchCityPopulationData(location) ==
  IF Len(location) = 0 \/ location = NotSpecified THEN <<>>
  ELSE IF cityKeyOf(Trim(toLowerCase(location))) = <<>>
  THEN <<Line("city not found", location)>>
  ELSE <<Line("city demographics", location),
         Line("city figures", cityKeyOf(Trim(toLowerCase(location))))>>

\* what the web search answers with: fetch throws, a non-OK status, a body
\* without success or data, a body with no results, a body with results
WebOutcomes == {"throw", "status", "nosuccess", "empty", "results"}

\* fetchFirecrawlSearch once fetch has settled
firecrawlResult(outcome) ==
  CASE outcome = "throw"     -> <<>>
    [] outcome = "status"    -> <<>>
    [] outcome = "nosuccess" -> <<>>
    [] outcome = "empty"     -> <<>>
    [] outcome = "results"   -> <<Line("snippets", <<>>)>>

\* what a World Bank call answers with: fetch throws, a non-OK status, a
\* body with the indicator's figures
StatsOutcomes == {"throw", "status", "data"}

\* the lines call k adds to populationInfo
populationLines(k, outcome) ==
  IF outcome # "data" THEN <<>>
  ELSE CASE k = 1 -> <<Line("population", <<>>), Line("growth", <<>>)>>
         [] k = 2 -> <<Line("urban", <<>>)>>
         [] k = 3 -> <<Line("gdp", <<>>)>>

\* if (location && location !== 'Not specified') populationInfo += Note
populationNote(location) ==
  IF Len(location) > 0 /\ location # NotSpecified THEN <<Line("note", location)>>
  ELSE <<>>

WorldBankCalls == 3

Pending == [state |-> "pending", value |-> <<>>]
Fulfilled(text) == [state |-> "fulfilled", value |-> text]

\* the three promises are created: the web search returns '' at once without
\* its key and awaits its fetch otherwise, the statistics fetch awaits its
\* first call, the city lookup has no await and is settled
StartFetches ==
  /\ pc = "fetch"
  /\ inFlight' =
       [web   |-> IF env.firecrawlKey THEN Pending ELSE Fulfilled(<<>>),
        webOutcome |-> IF env.firecrawlKey THEN "none" ELSE "nokey",
        stats |-> Pending,
        statsOutcomes |-> <<>>,
        populationInfo |-> <<>>,
        city  |-> Fulfilled(fetchCityPopulationData(lookupNameOf(valid.location)))]
  /\ pc' = "fetching"
  /\ UNCHANGED <<req, env, valid, raw, pass1, scoring, expl, response, calls, sIn, sOut,
               again, yearly, realTimeData, suspended>>

\* the web search's fetch settles; it carries no timeout, so nothing
\* happens while the service stays silent
WebCanSettle ==
  pc = "fetching" /\ inFlight.web.state = "pending" /\ "web" \notin env.silent

WebSettles ==
  /\ WebCanSettle
  /\ \E o \in WebOutcomes :
       inFlight' = [inFlight EXCEPT !.web = Fulfilled(firecrawlResult(o)),
                                    !.webOutcome = o]
  /\ UNCHANGED <<pc, req, env, valid, raw, pass1, scoring, expl, response, calls, sIn,
               sOut, again, yearly, realTimeData, suspended>>

\* populationInfo after call k answered with outcome o (not a throw)
StatsAnswered(o) ==
  LET k == Len(inFlight.statsOutcomes) + 1
      info == inFlight.populationInfo \o populationLines(k, o)
  IN  inFlight' =
        [inFlight EXCEPT
           !.statsOutcomes = Append(@, o),
           !.populationInfo = info,
           !.stats = IF k < WorldBankCalls THEN Pending
                     ELSE Fulfilled(info \o populationNote(lookupNameOf(valid.location)))]

\* a World Bank call throws or its signal aborts it: the catch returns ''
StatsThrown(o) ==
  inFlight' = [inFlight EXCEPT !.statsOutcomes = Append(@, o),
                               !.stats = Fulfilled(<<>>)]

\* the World Bank call in flight settles
StatsCanSettle ==
  pc = "fetching" /\ inFlight.stats.state = "pending" /\ "stats" \notin env.silent

StatsSettles ==
  /\ StatsCanSettle
  /\ \E o \in StatsOutcomes : IF o = "throw" THEN StatsThrown(o) ELSE StatsAnswered(o)
  /\ UNCHANGED <<pc, req, env, valid, raw, pass1, scoring, expl, response, calls, sIn,
               sOut, again, yearly, realTimeData, suspended>>

\* AbortSignal.timeout(5000) aborts the World Bank call in flight
StatsCanTimeOut == pc = "fetching" /\ inFlight.stats.state = "pending"

StatsTimesOut ==
  /\ StatsCanTimeOut
  /\ StatsThrown("timeout")
  /\ UNCHANGED <<pc, req, env, valid, raw, pass1, scoring, expl, response, calls, sIn,
               sOut, again, yearly, realTimeData, suspended>>

\* Promise.allSettled resolves once the three promises are settled; the
\* values of the fulfilled ones are copied over the '' defaults
AllAreSettled ==
  pc = "fetching" /\ \A src \in {"web", "stats", "city"} : inFlight[src].state # "pending"

AllSettled ==
  /\ AllAreSettled
  /\ realTimeData' =
       [webSearchResults   |-> IF inFlight.web.state = "fulfilled"
                               THEN inFlight.web.value ELSE <<>>,
        populationData     |-> IF inFlight.stats.state = "fulfilled"
                               THEN inFlight.stats.value ELSE <<>>,
        cityPopulationData |-> IF inFlight.city.state = "fulfilled"
                               THEN inFlight.city.value ELSE <<>>]
  /\ calls' = [calls EXCEPT !.fetch = @ + 1]
  /\ pc' = "pass1"
  /\ UNCHANGED <<req, env, valid, raw, pass1, scoring, expl, response, sIn, sOut,
               again, yearly, inFlight, suspended>>

L_none == NotSpecified
L_pune == <<"M","G"," ","R","o","a","d",","," ","P","u","n","e">>
L_hsr  == <<"H","S","R"," ","L","a","y","o","u","t">>
L_state == <<"P","u","n","e",","," ","M","a","h","a","r","a","s","h","t","r","a">>

NetLocations == {L_none, L_pune, L_hsr, L_state}

NetPass1Gateways ==
  {Gateway(TRUE, "ok", 429, <<>>, NoData),
   Gateway(TRUE, "ok", 200, <<"obj">>,
           RawPayload(F_hi, BestCost, BestCashflow, BestMargin, FewCompetitors, JStr(G_20)))}

NetPass3Gateways ==
  {Gateway(TRUE, "ok", 200, <<>>, NoData),
   Gateway(TRUE, "ok", 200, <<"obj">>,
           RawExplanation(JStr(T_plain), Arr(<<JStr(T_plain)>>), Arr(<<RawRisk(SevLow)>>),
                          Arr(<<RawPhase>>), JUndef, JUndef))}

\* a validated request at the pre-pass; silent holds the services that never
\* answer this request
InitNet ==
  /\ pc = "fetch"
  /\ req = [method |-> "POST", bearer |-> TRUE, json |-> TRUE, body |-> NoBody]
  /\ env \in [variant : {"gbdt"}, year : {0}, user : {"ok"}, pass1 : {"pending"},
              pass3 : {"pending"}, gateways : {<<>>}, firecrawlKey : BOOLEAN,
              silent : SUBSET {"web", "stats", "ai"}]
  /\ \E l \in NetLocations :
       valid = [businessIdea |-> Idea(MinIdeaLen, 0), location |-> l, budget |-> B_1l]
  /\ raw = NoValue
  /\ pass1 = NoValue
  /\ scoring = NoValue
  /\ expl = NoValue
  /\ response = NoValue
  /\ calls = NoCalls
  /\ sIn = <<>>
  /\ sOut = <<>>
  /\ again = NoValue
  /\ yearly = NoValue
  /\ inFlight = NoValue
  /\ realTimeData = NoValue
  /\ suspended = NoValue

\* callAI's fetch carries no timeout: nothing happens while the gateway
\* stays silent
GatewayAnswers == "ai" \notin env.silent

NetPass1Failed == GatewayAnswers /\ Pass1FailedFrom(NetPass1Gateways)
NetPass1Done   == GatewayAnswers /\ Pass1DoneFrom(NetPass1Gateways)
NetPass3Failed == GatewayAnswers /\ Pass3FailedFrom(NetPass3Gateways)
NetPass3Done   == GatewayAnswers /\ Pass3DoneFrom(NetPass3Gateways)

NextNet ==
  \/ StartFetches
  \/ WebSettles
  \/ StatsSettles
  \/ StatsTimesOut
  \/ AllSettled
  \/ NetPass1Failed
  \/ NetPass1Done
  \/ Pass2
  \/ NetPass3Failed
  \/ NetPass3Done

SpecNet == InitNet /\ [][NextNet]_vars

(***************************************************************************)
(* Properties of the scoring pipeline (SpecScore)                          *)
(***************************************************************************)
Scored == scoring # NoValue

\* C1: whenever pass2_score reports budgetFitPercent below 25 the verdict is
\* AVOID, whatever the score, in both variants.
C1_BudgetFloorAvoids ==
  (Scored /\ JLt(scoring.budgetFitPercent, Num(AvoidBudgetFitWA)))
    => scoring.verdict = "AVOID"

\* the floor decides: the score alone would not have given AVOID
C1_Witness ==
  /\ Scored /\ env.variant = "gbdt"
  /\ JLt(scoring.budgetFitPercent, Num(AvoidBudgetFitWA))
  /\ JGe(scoring.score, Num(AvoidScore))
  /\ scoring.verdict = "AVOID"

\* C2: the verdict is GO only when the score is at least the GO threshold and
\* the budget covers at least half of the average setup cost.
C2_GoNeedsScoreAndBudget ==
  (Scored /\ scoring.verdict = "GO")
    => /\ JGe(scoring.score, Num(IF env.variant = "gbdt" THEN GoScore ELSE GoScoreWA))
       /\ JGe(scoring.budgetFitPercent, Num(GoBudgetFitWA))
       /\ env.variant = "gbdt" => JGe(scoring.gbdtFeatures.budgetRatio, GoBudgetRatio)

C2_Witness == Scored /\ env.variant = "gbdt" /\ scoring.verdict = "GO"

\* C3: the score returned by pass2_score is an integer in 0..100.
C3_ScoreIsIntegerInRange ==
  Scored => /\ IsInteger(scoring.score)
            /\ JGe(scoring.score, Num(0))
            /\ JLe(scoring.score, Num(100))

\* the rounding acted: the ensemble's prediction was not a whole number
C3_Witness ==
  /\ Scored /\ env.variant = "gbdt"
  /\ ~IsInteger(rawPrediction(scoring.gbdtFeatures))
  /\ IsInteger(scoring.score)

InUnit(x) == JGe(x, Num(0)) /\ JLe(x, Num(1))

\* C9: after sanitizePass1 every factor has an integer score in 0..100 and a
\* weight in [0,1], avgProfitMargin is in [0,1], and the setup-cost, revenue,
\* expense and competitor figures are non-negative numbers.
C9_Pass1Clamped ==
  pass1 # NoValue =>
    /\ \A i \in DOMAIN pass1.factors :
         /\ IsInteger(pass1.factors[i].score)
         /\ JGe(pass1.factors[i].score, Num(0))
         /\ JLe(pass1.factors[i].score, Num(100))
         /\ InUnit(pass1.factors[i].weight)
    /\ InUnit(pass1.avgProfitMargin)
    /\ \A x \in {pass1.estimatedSetupCostMin, pass1.estimatedSetupCostMax,
                  pass1.estimatedMonthlyRevenueMin, pass1.estimatedMonthlyRevenueMax,
                  pass1.estimatedMonthlyExpensesMin, pass1.estimatedMonthlyExpensesMax,
                  pass1.directCompetitors, pass1.indirectCompetitors} :
         JGe(x, Num(0))

\* score 150 became 100, weight 1.5 became 1, a missing weight and a
\* non-numeric score became 0
C9_Witness ==
  /\ pass1 # NoValue /\ raw.factors = F_mix
  /\ pass1.factors[1].score = Num(100) /\ pass1.factors[1].weight = Num(1)
  /\ pass1.factors[2].score = Num(0) /\ pass1.factors[2].weight = Num(0)

\* C10: the factor set handed to pass2_score has between 4 and 8 factors.
C10_FactorCount == Scored => Len(pass1.factors) \in 4..8

\* C13: every year record of pass2_score has profit = revenue - expenses, and
\* generateYearlyWithMonths keeps the three yearly figures.
C13_YearProfit ==
  /\ Scored =>
       \A j \in DOMAIN scoring.financialProjections :
         scoring.financialProjections[j].profit =
           JSub(scoring.financialProjections[j].revenue,
                scoring.financialProjections[j].expenses)
  /\ yearly # NoValue =>
       /\ DOMAIN yearly = DOMAIN scoring.financialProjections
       /\ \A j \in DOMAIN yearly :
            /\ yearly[j].year = scoring.financialProjections[j].year
            /\ yearly[j].revenue = scoring.financialProjections[j].revenue
            /\ yearly[j].expenses = scoring.financialProjections[j].expenses
            /\ yearly[j].profit = scoring.financialProjections[j].profit

\* a later year, in which both revenue and expenses have grown, at a loss
C13_Witness ==
  /\ yearly # NoValue
  /\ JLt(yearly[2].profit, Num(0))
  /\ JGt(yearly[2].expenses, yearly[1].expenses)
  /\ Len(yearly[2].months) = 12

\* C14: every month record has profit = revenue - expenses of the rounded
\* monthly figures of the same record.
C14_MonthProfit ==
  yearly # NoValue =>
    \A j \in DOMAIN yearly : \A i \in DOMAIN yearly[j].months :
      yearly[j].months[i].profit =
        JSub(yearly[j].months[i].revenue, yearly[j].months[i].expenses)

\* a and b are the same amount or differ by at most tol
Within(a, b, tol) == a = b \/ JLe(JAbs(JSub(a, b)), Num(tol))

MonthSum(y, field) == SumSeq([i \in 1..12 |-> y.months[i][field]], 12)

\* C15: the seasonal weights sum to 1, and for every year record the twelve
\* monthly revenues (expenses) sum to the yearly revenue (expenses) within 6.
C15_MonthsAddUp ==
  /\ SumSeq([i \in 1..12 |-> Num(seasonalWeights[i])], 12) = Num(100)
  /\ yearly # NoValue =>
       \A j \in DOMAIN yearly :
         /\ Within(MonthSum(yearly[j], "revenue"), yearly[j].revenue, 6)
         /\ Within(MonthSum(yearly[j], "expenses"), yearly[j].expenses, 6)

\* the rounding of the months shows in the sum
C15_Witness ==
  /\ yearly # NoValue
  /\ IsFinite(yearly[2].revenue)
  /\ MonthSum(yearly[2], "revenue") # yearly[2].revenue
  /\ MonthSum(yearly[2], "expenses") # yearly[2].expenses

\* C16: two invocations of pass2_score with the same payload and budget, at
\* any two times, return identical results, year fields included.
C16_Deterministic == pc = "h_again" => again = scoring

\* the averages of the Pass-1 estimates
MeanSetupCost ==
  JDiv(JAdd(pass1.estimatedSetupCostMin, pass1.estimatedSetupCostMax), Num(2))
MeanRevenue ==
  JDiv(JAdd(pass1.estimatedMonthlyRevenueMin, pass1.estimatedMonthlyRevenueMax), Num(2))
MeanExpenses ==
  JDiv(JAdd(pass1.estimatedMonthlyExpensesMin, pass1.estimatedMonthlyExpensesMax), Num(2))

\* ceil(cost / profit) when the profit is positive, and 36 otherwise
MonthsToRecover(cost, profit) ==
  IF JGt(profit, Num(0)) THEN JCeil(JDiv(cost, profit)) ELSE Num(36)

\* C20: breakEvenMonths = ceil(avgSetupCost / monthlyProfit) when monthlyProfit
\* (average revenue minus average expenses of the Pass-1 estimates) is
\* positive, and 36 otherwise, for every score.
C20_BreakEven ==
  Scored => scoring.breakEvenMonths =
              MonthsToRecover(MeanSetupCost, JSub(MeanRevenue, MeanExpenses))

\* the monthly profit of the variant: in the GBDT variant the average revenue
\* is first scaled by the confidence multiplier 0.6 + score / 100 * 0.8
ProfitOfVariant ==
  IF env.variant = "gbdt"
  THEN JSub(JMul(MeanRevenue,
                 JAdd(Fin(6, 10), JMul(JDiv(scoring.score, Num(100)), Fin(8, 10)))),
            MeanExpenses)
  ELSE JSub(MeanRevenue, MeanExpenses)

\* the GBDT variant takes an average setup cost of 0 (or NaN) as 1
SetupCostOfVariant ==
  IF env.variant = "gbdt" /\ ~Truthy(MeanSetupCost) THEN Num(1) ELSE MeanSetupCost

\* C20 as amended: breakEvenMonths = ceil(avgSetupCost / monthlyProfit) when
\* the monthly profit of the variant is positive, and 36 otherwise.
C20_BreakEvenOfVariant ==
  Scored => scoring.breakEvenMonths = MonthsToRecover(SetupCostOfVariant, ProfitOfVariant)

\* the confidence multiplier changed the number of months
C20_Witness ==
  /\ Scored /\ env.variant = "gbdt"
  /\ JGt(ProfitOfVariant, Num(0))
  /\ IsFinite(scoring.breakEvenMonths)
  /\ scoring.breakEvenMonths # MonthsToRecover(MeanSetupCost, JSub(MeanRevenue, MeanExpenses))
  /\ ~IsInteger(JDiv(SetupCostOfVariant, ProfitOfVariant))

(***************************************************************************)
(* Properties of sanitizeString (SpecSan)                                  *)
(***************************************************************************)
\* C7: sanitizeString(sanitizeString(x)) = sanitizeString(x) for every x.
C7_SanitizeIdempotent == pc = "s_twice" => sOut[2] = sOut[1]

\* C8: the output of sanitizeString holds no HTML tag, no javascript:, no
\* inline handler, no data:text/html and no &#.
C8_NoPatternLeft ==
  pc \in {"s_once", "s_twice"} =>
    /\ ~HasTag(sOut[1])
    /\ ~HasJavascript(sOut[1])
    /\ ~HasHandler(sOut[1])
    /\ ~HasDataUri(sOut[1])
    /\ ~HasEntity(sOut[1])

(***************************************************************************)
(* Properties of parseBudget (SpecBudget)                                  *)
(***************************************************************************)
\* C11: for a decimal number followed by one unit suffix, in any letter case,
\* with or without currency symbol, commas and spaces, parseBudget returns the
\* number times the multiplier of the unit.
C11_NumberTimesUnit ==
  (pc = "b_out" /\ sIn.kind = "amount" /\ sIn.unit # NoUnit)
    => sOut[1] = JMul(sIn.amount.value, Num(sIn.unit.mult))

\* '2.5 Cr' gives 25000000, and a lakh amount is not taken for thousands
C11_Witness ==
  /\ pc = "b_out"
  /\ BudgetInput(sIn) = <<"2", ".", "5", " ", "C", "r">>
  /\ sOut[1] = Num(25000000)

\* C12: parseBudget returns 500000 when the string is empty, 'Not specified'
\* or holds no numeric value (dots alone included), and a finite non-negative
\* number in every other case.
C12_DefaultOrFinite ==
  pc = "b_out" =>
    IF sIn.kind = "none" THEN sOut[1] = Num(DefaultBudget)
    ELSE IsFinite(sOut[1]) /\ JGe(sOut[1], Num(0))

(***************************************************************************)
(* Properties of the handler (Spec)                                        *)
(***************************************************************************)
\* C4: verdict, score, breakEvenMonths, roi and yearlyData of the success
\* response are the values pass2_score (and generateYearlyWithMonths) computed
\* from the Pass-1 payload and the budget, whatever the explanation call
\* returned.
C4_ResponseKeepsScoring ==
  (pc = "done" /\ response.kind = "analysis") =>
    /\ scoring = scoreWith(env.variant, pass1, valid.budget, env.year)
    /\ response.analysis.verdict = scoring.verdict
    /\ response.analysis.score = scoring.score
    /\ response.analysis.financialProjection.breakEvenMonths = scoring.breakEvenMonths
    /\ response.analysis.financialProjection.roi = scoring.roi
    /\ response.analysis.financialProjection.yearlyData =
         generateYearlyWithMonths(scoring.financialProjections)

\* the explanation carried a score and a verdict of its own, and had no summary
C4_Witness ==
  /\ pc = "done" /\ response.kind = "analysis"
  /\ env.gateways[2].content.value.verdict = JStr(<<"A","V","O","I","D">>)
  /\ env.gateways[2].content.value.score = JNum(Num(0))
  /\ response.analysis.verdict = "GO"
  /\ response.analysis.score # Num(0)

\* the Pass-1 call failed: no key, a thrown fetch, a non-2xx status, an empty
\* completion, or a completion whose text is not one JSON object
CallFailed(g) ==
  \/ ~g.key
  \/ g.net # "ok"
  \/ g.status # 200
  \/ g.content.tokens = <<>>
  \/ \A i \in DOMAIN g.content.tokens : g.content.tokens[i] # "obj"

\* C5: if the Pass-1 call fails, pass2_score and pass3_explain are never
\* invoked and the response is an error with no analysis.
C5_Pass1FailureStops ==
  (Len(env.gateways) > 0 /\ CallFailed(env.gateways[1])) =>
    /\ pc = "done"
    /\ response.kind = "error"
    /\ calls.pass2 = 0 /\ calls.pass3 = 0
    /\ scoring = NoValue /\ expl = NoValue

\* the completion was prose
C5_Witness ==
  /\ Len(env.gateways) = 1
  /\ env.gateways[1].content.tokens = <<"prose">>
  /\ env.pass1 = "failed"
  /\ response.kind = "error"

IdeaTooShort == "Business idea must be at least 10 characters"
IdeaTooLong  == "Business idea must be less than 2000 characters"

\* the request carries a non-empty string as its business idea
HasIdea == req.json /\ req.body.t = "object" /\ req.body.businessIdea.t = "string"
             /\ Len(req.body.businessIdea.str) > 0

\* the length of the idea without the white space around it
IdeaLength ==
  Cardinality({i \in DOMAIN req.body.businessIdea.str :
                 /\ \E j \in 1..i : req.body.businessIdea.str[j] # " "
                 /\ \E j \in i..Len(req.body.businessIdea.str) :
                      req.body.businessIdea.str[j] # " "})

\* C6: an idea of fewer than 10 or more than 2000 characters after trimming is
\* answered with status 400 and the message of the field, and nothing is
\* fetched, asked of the AI gateway or scored; an idea of 10 to 2000
\* characters is accepted.
C6_IdeaLength ==
  (env.user = "ok" /\ HasIdea) =>
    IF IdeaLength < MinIdeaLen \/ IdeaLength > MaxIdeaLen
    THEN /\ pc \in {"authed", "done"}
         /\ calls = NoCalls /\ valid = NoValue /\ scoring = NoValue
         /\ pc = "done" =>
              response = ErrorResponse(400, IF IdeaLength < MinIdeaLen THEN IdeaTooShort
                                            ELSE IdeaTooLong)
    ELSE pc = "done" =>
           ~(response.kind = "error" /\ response.error \in {IdeaTooShort, IdeaTooLong})

\* an idea of ten characters or more that is too short once trimmed
C6_Witness ==
  /\ pc = "done" /\ env.user = "ok" /\ HasIdea
  /\ Len(req.body.businessIdea.str) >= MinIdeaLen
  /\ IdeaLength < MinIdeaLen
  /\ response = ErrorResponse(400, IdeaTooShort)

Incomplete == "Analysis incomplete. Please try again."

\* what the gateway's answers call themselves inside the function
InternalErrors ==
  {"RATE_LIMITED", "CREDITS_EXHAUSTED", "SERVICE_CONFIG_ERROR", "SERVICE_ERROR",
   "EMPTY_RESPONSE", "SyntaxError", "TypeError", "fetch failed"}

\* the last AI call of the request
LastGateway == env.gateways[Len(env.gateways)]

Answered(g) == g.key /\ g.net = "ok"

\* C19: an empty completion or one that fails JSON parsing ends the request
\* with 'Analysis incomplete. Please try again.'; 429 and 402 have messages of
\* their own; no internal error text is shown.
C19_UpstreamErrors ==
  (pc = "done" /\ response.kind = "error" /\ Len(env.gateways) > 0) =>
    /\ response.error \notin InternalErrors
    /\ (Answered(LastGateway) /\ LastGateway.status = 429)
         => response.error = "Service is busy. Please try again in a moment."
    /\ (Answered(LastGateway) /\ LastGateway.status = 402)
         => response.error = "Service temporarily unavailable."
    /\ (Answered(LastGateway) /\ LastGateway.status = 200
          /\ \A i \in DOMAIN LastGateway.content.tokens :
               LastGateway.content.tokens[i] \notin {"obj", "null"})
         => response.error = Incomplete

(***************************************************************************)
(* Properties of the pre-pass and of the network calls (SpecNet)           *)
(***************************************************************************)
WebFailed == inFlight.webOutcome \in {"nokey", "throw", "status"}

\* a World Bank call threw or timed out, or every one of them answered with a
\* non-OK status
StatsFailed ==
  \/ \E i \in DOMAIN inFlight.statsOutcomes : inFlight.statsOutcomes[i] \in {"throw", "timeout"}
  \/ inFlight.statsOutcomes = <<"status", "status", "status">>

\* C17: fetchRealTimeData never rejects; each failed source (thrown error,
\* non-OK status, missing API key) contributes an empty string, each
\* successful one keeps its text, and the handler goes on to Pass 1.
C17_FailedSourcesEmpty ==
  realTimeData # NoValue =>
    /\ pc \in {"pass1", "pass2", "pass3", "done"}
    /\ WebFailed => realTimeData.webSearchResults = <<>>
    /\ inFlight.webOutcome = "results" =>
         realTimeData.webSearchResults = <<Line("snippets", <<>>)>>
    /\ StatsFailed => realTimeData.populationData = <<>>
    /\ inFlight.statsOutcomes = <<"data", "data", "data">> =>
         SubSeq(realTimeData.populationData, 1, 4) =
           <<Line("population", <<>>), Line("growth", <<>>), Line("urban", <<>>),
             Line("gdp", <<>>)>>
    /\ realTimeData.cityPopulationData = inFlight.city.value

\* some step of the handler is possible: a promise can settle, the join can
\* resolve, the gateway can answer, or the handler computes
StepPossible ==
  \/ pc \in {"fetch", "pass2"}
  \/ WebCanSettle
  \/ StatsCanSettle
  \/ StatsCanTimeOut
  \/ AllAreSettled
  \/ pc \in {"pass1", "pass3"} /\ GatewayAnswers

\* C18: every external call carries a timeout, so every request receives a
\* response even when an external service never answers: the handler is
\* never left waiting on a call that cannot settle.
C18_NoRequestWaitsForever == pc # "done" => StepPossible


(***************************************************************************)
(* Further properties of the scoring pipeline (SpecScore)                  *)
(***************************************************************************)
\* C21: roi, budgetFitPercent and breakEvenMonths returned by pass2_score are
\* finite integers, whatever the budget string parses to and whatever the
\* estimates are.
C21_FiniteIntegers ==
  Scored => /\ IsInteger(scoring.roi)
            /\ IsInteger(scoring.budgetFitPercent)
            /\ IsInteger(scoring.breakEvenMonths)

(***************************************************************************)
(* Further properties of the real-time data (SpecNet)                      *)
(***************************************************************************)
\* the lines of a text that are of the given kind
LinesOf(text, kind) == {i \in 1..Len(text) : text[i].line = kind}

\* C23: the city lookup of a request tries the whole normalized location
\* and then each of its tokens: a location that is a key of the table, or
\* that holds a key among its tokens, gets the figures of that entry, and
\* only a location without any such key gets no figures.
C23_CityLookup ==
  realTimeData # NoValue =>
    IF cityKeyOf(Trim(toLowerCase(valid.location))) # <<>>
    THEN \E i \in LinesOf(realTimeData.cityPopulationData, "city figures") :
           realTimeData.cityPopulationData[i].about
             = cityKeyOf(Trim(toLowerCase(valid.location)))
    ELSE LinesOf(realTimeData.cityPopulationData, "city figures") = {}

\* C30: the 'Not specified' sentinel is never taken for a place name: the
\* city text of such a request is empty and its statistics text carries no
\* note about a city.
C30_SentinelIsNoPlace ==
  realTimeData # NoValue /\ valid.location = NotSpecified =>
    /\ realTimeData.cityPopulationData = <<>>
    /\ LinesOf(realTimeData.populationData, "note") = {}

(***************************************************************************)
(* Further properties of the handler (Spec)                                *)
(***************************************************************************)
\* C25: parseJSON extracts the JSON object of a completion both from a code
\* fence with prose around it and from a bare object with prose before or
\* after it: it fails only on a completion that holds no JSON object.
C25_ExtractsJson ==
  \A i \in 1..Len(env.gateways) :
    (/\ callAI(env.gateways[i]).ok
     /\ \E k \in DOMAIN env.gateways[i].content.tokens :
          env.gateways[i].content.tokens[k] = "obj")
      => parseJSON(env.gateways[i].content).ok

(***************************************************************************)
(* Properties of two requests handled at once (SpecPair)                   *)
(***************************************************************************)
\* C24: however the steps of two requests are interleaved, each request is
\* answered as it would be when handled alone with the same answers of the
\* collaborators.
C24_Isolation ==
  /\ pc = "done" => response = responseAlone(req, env)
  /\ suspended.pc = "done" => suspended.response = responseAlone(suspended.req, suspended.env)

\* a request has been answered with an analysis while another one, with a
\* different budget, was waiting for its Pass 3
C24_Witness ==
  /\ pc = "done" /\ response.kind = "analysis"
  /\ suspended.pc = "pass3"
  /\ suspended.valid.budget # valid.budget

(***************************************************************************)
(* The budget harness: a Pass-1 payload and two budget strings are drawn;  *)
(* the payload is sanitized and pass2_score is applied to it with the one  *)
(* budget and then with the other.                                         *)
(***************************************************************************)
B_600  == <<"6","0","0">>
B_1400 == <<"1","4","0","0">>
B_3000 == <<"3","0","0","0">>
B_4000 == <<"4","0","0","0">>

RaiseBudgets ==
  {B_0, B_440, B_600, B_1000, B_1400, B_2k, B_3000, B_4000, B_dot, NotSpecified}

RaisePayloads ==
  {RawPayload(fs, c, BestCashflow, BestMargin, k, JStr(G_20)) :
     fs \in {F_hi, F_lo, F_zero}, c \in Costs, k \in Competitors}

InitRaise ==
  /\ pc = "h_raw"
  /\ req = [method |-> "POST", bearer |-> TRUE, json |-> TRUE, body |-> NoBody]
  /\ env \in [variant : {"gbdt", "wa"}, year : HarnessYears, user : {"ok"},
              pass1 : {"ok"}, pass3 : {"pending"}]
  /\ \E b \in RaiseBudgets :
       valid = [businessIdea |-> Idea(MinIdeaLen, 0), location |-> NotSpecified, budget |-> b]
  /\ raw \in RaisePayloads
  /\ pass1 = NoValue
  /\ scoring = NoValue
  /\ expl = NoValue
  /\ response = NoValue
  /\ calls = NoCalls
  /\ sIn \in RaiseBudgets
  /\ sOut = <<>>
  /\ again = NoValue
  /\ yearly = NoValue
  /\ inFlight = NoValue
  /\ realTimeData = NoValue
  /\ suspended = NoValue

\* pass2_score is invoked on the same payload with the other budget
HarnessScoreOther ==
  /\ pc = "h_scored"
  /\ again' = scoreWith(env.variant, pass1, sIn, env.year)
  /\ pc' = "h_other"
  /\ UNCHANGED <<req, env, valid, raw, pass1, scoring, expl, response, calls, sIn, sOut,
               yearly, inFlight, realTimeData, suspended>>

NextRaise == HarnessSanitize \/ HarnessScore \/ HarnessScoreOther

SpecRaise == InitRaise /\ [][NextRaise]_vars

(***************************************************************************)
(* Properties of the score under a larger budget (SpecRaise)               *)
(***************************************************************************)
\* the budget of the second invocation is at least that of the first
BudgetRaised == JLe(parseBudget(valid.budget), parseBudget(sIn))

\* budgetRatio of the weighted-average variant for a budget string
RatioWA(budget) ==
  budgetRatioOfWA(parseBudget(budget),
                  Average(pass1.estimatedSetupCostMin, pass1.estimatedSetupCostMax))

\* C27: in the weighted-average variant the budget multiplier is a step
\* function of budgetRatio that never decreases, with values from 0.40 (below
\* a ratio of 0.3) to 1.15 (from a ratio of 2.0 on); budgetRatio is 1 when
\* the average setup cost is 0; so the score of a payload never decreases
\* when the budget increases.
C27_MultiplierMonotone ==
  pc = "h_other" /\ env.variant = "wa" =>
    /\ JGe(budgetModifierOf(RatioWA(sIn)), Fin(40, 100))
    /\ JLe(budgetModifierOf(RatioWA(sIn)), Fin(115, 100))
    /\ JLt(RatioWA(sIn), Fin(3, 10)) => budgetModifierOf(RatioWA(sIn)) = Fin(40, 100)
    /\ JGe(RatioWA(sIn), Num(2)) => budgetModifierOf(RatioWA(sIn)) = Fin(115, 100)
    /\ Average(pass1.estimatedSetupCostMin, pass1.estimatedSetupCostMax) = Num(0)
         => RatioWA(sIn) = Num(1)
    /\ BudgetRaised =>
         /\ JLe(budgetModifierOf(RatioWA(valid.budget)), budgetModifierOf(RatioWA(sIn)))
         /\ JLe(scoring.score, again.score)

\* the larger budget moved the multiplier from 0.40 to 1.15 and the score up
C27_Witness ==
  /\ pc = "h_other" /\ env.variant = "wa"
  /\ BudgetRaised
  /\ budgetModifierOf(RatioWA(valid.budget)) = Fin(40, 100)
  /\ budgetModifierOf(RatioWA(sIn)) = Fin(115, 100)
  /\ JLt(scoring.score, again.score)

\* C28: in the GBDT variant the score of a payload never decreases when the
\* budget increases, from a budget of 0 upward.
C28_ScoreMonotone ==
  pc = "h_other" /\ env.variant = "gbdt" /\ BudgetRaised => JLe(scoring.score, again.score)

(***************************************************************************)
(* The ensemble harness: a feature vector is drawn, with every feature at  *)
(* or between the thresholds it is compared with, and gbdtPredict is       *)
(* applied to it.                                                          *)
(***************************************************************************)
FeatureVectors ==
  [avgFactorScore        : {Num(40), Num(60), Num(75), Num(100)},
   budgetRatio           : {Num(0), Fin(1, 2), Num(1), Num(2), Num(MaxBudgetRatio), NaN},
   competitionDensity    : {Num(0), Fin(1, 2), Num(1)},
   marketGrowthSignal    : {Fin(1, 10), Fin(1, 2), Num(1)},
   profitMarginEstimate  : {Fin(1, 10), Fin(3, 10), Num(1)},
   locationTierScore     : {Fin(1, 2), Num(1)},
   revenueToExpenseRatio : {Fin(1, 2), Fin(3, 2), Num(MaxRevExpRatio)},
   factorVarianceSq      : {Num(0), Num(1)},
   topFactorScore        : {Num(50), Num(100)},
   bottomFactorScore     : {Num(0), Num(40), Num(100)}]

InitEnsemble ==
  /\ pc = "g_in"
  /\ HarnessIdle
  /\ \E features \in FeatureVectors : sIn = <<features>>
  /\ sOut = <<>>

\* gbdtPredict(features): the additive prediction, and the score it returns
HarnessPredict ==
  /\ pc = "g_in"
  /\ sOut' = <<rawPrediction(sIn[1]), gbdtPredict(sIn[1])>>
  /\ pc' = "g_out"
  /\ UNCHANGED <<req, env, valid, raw, pass1, scoring, expl, response, calls, sIn,
               again, yearly, inFlight, realTimeData, suspended>>

NextEnsemble == HarnessPredict

SpecEnsemble == InitEnsemble /\ [][NextEnsemble]_vars

(***************************************************************************)
(* Properties of the ensemble (SpecEnsemble)                               *)
(***************************************************************************)
\* C29: for every feature vector the additive prediction of gbdtPredict lies
\* strictly between 0 and 100, so the clamp leaves it as it is, and the
\* score returned is between 30 and 63.
C29_PredictionInRange ==
  pc = "g_out" =>
    /\ JGt(sOut[1], Num(0)) /\ JLt(sOut[1], Num(100))
    /\ clampOnly(sOut[1]) = sOut[1]
    /\ JGe(sOut[2], Num(30)) /\ JLe(sOut[2], Num(63))

\* a feature vector reaches the GO threshold of 62
C29_Witness == pc = "g_out" /\ JGe(sOut[2], Num(62))

(***************************************************************************)
(* The caps harness: a Pass-1 payload and a Pass-3 payload whose lists and *)
(* strings are at or one above their caps are drawn, and sanitizePass1 and *)
(* sanitizePass3 are applied.                                              *)
(***************************************************************************)
RawMarketDataPoint(metric) ==
  [t |-> "object", metric |-> JStr(metric), minValue |-> JNum(Num(1)),
   maxValue |-> JNum(Num(3)), estimatedValue |-> JNum(Num(2)),
   unit |-> JStr(Repeat("u", MaxUnitLen + 1)), source |-> JStr(Repeat("s", MaxSourceLen + 1)),
   confidence |-> JStr(ConfHigh)]

\* nf factors with names of nameLen letters and reasonings one above their
\* cap, nm market-data points, market texts one above their cap
CapsPayload(nf, nameLen, nm) ==
  [RawPayload(Arr([i \in 1..nf |->
                     [RawFactor(Repeat("n", nameLen), JNum(Fin(1, 10)), JNum(Num(50)),
                                JBool(FALSE))
                        EXCEPT !.reasoning = JStr(Repeat("r", MaxReasonLen + 1))]]),
              BestCost, BestCashflow, BestMargin, FewCompetitors,
              JStr(Repeat("g", MaxMarketStrLen + 1)))
     EXCEPT !.marketData = Arr([i \in 1..nm |-> RawMarketDataPoint(Repeat("m", nameLen))]),
            !.marketSize = JStr(Repeat("z", MaxMarketStrLen + 1))]

CapsPayloads ==
  {CapsPayload(nf, nameLen, nm) : nf \in {MaxFactors, MaxFactors + 1},
                                  nameLen \in {1, MaxNameLen, MaxNameLen + 1},
                                  nm \in {MaxMarketData, MaxMarketData + 1}}

\* the summary and the last risk of textLen letters, string lists of listLen
\* entries, nr risks and np phases
CapsExplanation(textLen, listLen, nr, np) ==
  [RawExplanation(JStr(T_plain), Arr([i \in 1..listLen |-> JStr(T_plain)]),
                  Arr([i \in 1..nr |->
                         [RawRisk(SevHigh) EXCEPT
                            !.risk = JStr(Repeat("k", IF i = nr THEN textLen ELSE 1))]]),
                  Arr([i \in 1..np |->
                         [RawPhase EXCEPT !.tasks = Arr([j \in 1..listLen |-> JStr(T_plain)]),
                                          !.phase = JStr(Repeat("p", MaxPhaseLen + 1))]]),
                  JUndef, JUndef)
     EXCEPT !.summary = JStr(Repeat("y", textLen))]

CapsExplanations ==
  {CapsExplanation(textLen, listLen, n[1], n[2]) :
     textLen \in {MaxStringLen, MaxStringLen + 1},
     listLen \in {MaxStringArray, MaxStringArray + 1},
     n \in {<<MaxRisks, MaxPhases>>, <<MaxRisks + 1, MaxPhases + 1>>}}

InitCaps ==
  /\ pc = "c_raw"
  /\ HarnessIdle
  /\ \E data \in CapsPayloads : sIn = <<data>>
  /\ sOut = <<>>

\* const sanitized = sanitizePass1(parsed) in pass1_discoverFactorsAndData
CapsSanitizePass1 ==
  /\ pc = "c_raw"
  /\ pass1' = sanitizePass1(sIn[1])
  /\ pc' = "c_pass1"
  /\ UNCHANGED <<req, env, valid, raw, scoring, expl, response, calls, sIn, sOut,
               again, yearly, inFlight, realTimeData, suspended>>

\* return sanitizePass3(parsed) in pass3_explain, parsed being any of the
\* Pass-3 payloads
CapsSanitizePass3 ==
  /\ pc = "c_pass1"
  /\ \E data \in CapsExplanations :
       /\ sOut' = <<data>>
       /\ expl' = sanitizePass3(data)
  /\ pc' = "c_done"
  /\ UNCHANGED <<req, env, valid, raw, pass1, scoring, response, calls, sIn,
               again, yearly, inFlight, realTimeData, suspended>>

NextCaps == CapsSanitizePass1 \/ CapsSanitizePass3

SpecCaps == InitCaps /\ [][NextCaps]_vars

(***************************************************************************)
(* Properties of the caps (SpecCaps)                                       *)
(***************************************************************************)
StringLists(e) ==
  {e.threats, e.opportunities, e.recommendations}
    \cup {e.roadmapPhases[i].tasks : i \in DOMAIN e.roadmapPhases}
    \cup {e.roadmapPhases[i].milestones : i \in DOMAIN e.roadmapPhases}

NarrativeStrings(p, e) ==
  {e.summary, e.marketExplanation, e.competitionExplanation, e.financialExplanation,
   e.competitiveAdvantage, e.roadmapExplanation, e.expertInsights, p.marketSize,
   p.marketGrowth}
    \cup {e.risks[i].risk : i \in DOMAIN e.risks}
    \cup {e.risks[i].mitigation : i \in DOMAIN e.risks}
    \cup {e.roadmapPhases[i].phase : i \in DOMAIN e.roadmapPhases}
    \cup {e.roadmapPhases[i].duration : i \in DOMAIN e.roadmapPhases}
    \cup {p.factors[i].reasoning : i \in DOMAIN p.factors}
    \cup {p.marketData[i].metric : i \in DOMAIN p.marketData}
    \cup {p.marketData[i].source : i \in DOMAIN p.marketData}
    \cup UNION {Range(l) : l \in StringLists(e)}

Precision == 53
Limb      == 2^15
LimbBits  == CHOOSE k \in 1..30 : 2^k = Limb

BigOf(n) == IF n = 0 THEN <<>>
            ELSE IF n < Limb THEN <<n>>
            ELSE IF n < Limb * Limb THEN <<n % Limb, n \div Limb>>
            ELSE <<n % Limb, (n \div Limb) % Limb, n \div (Limb * Limb)>>

BigLimb(a, i) == IF i >= 1 /\ i <= Len(a) THEN a[i] ELSE 0

BigTrim(a) ==
  IF \A i \in 1..Len(a) : a[i] = 0 THEN <<>>
  ELSE SubSeq(a, 1, CHOOSE i \in 1..Len(a) : a[i] # 0 /\ \A j \in (i + 1)..Len(a) : a[j] = 0)

\* the number of binary digits of a
BigLen(a) ==
  IF a = <<>> THEN 0
  ELSE LimbBits * (Len(a) - 1)
         + CHOOSE k \in 1..LimbBits : 2^(k - 1) <= a[Len(a)] /\ a[Len(a)] < 2^k

\* binary digit i of a, the lowest being digit 1
BigBit(a, i) == (BigLimb(a, ((i - 1) \div LimbBits) + 1) \div 2^((i - 1) % LimbBits)) % 2

RECURSIVE BigAddFrom(_, _, _, _)
BigAddFrom(a, b, i, carry) ==
  IF i > Len(a) /\ i > Len(b) THEN (IF carry = 0 THEN <<>> ELSE <<carry>>)
  ELSE <<(BigLimb(a, i) + BigLimb(b, i) + carry) % Limb>>
         \o BigAddFrom(a, b, i + 1, (BigLimb(a, i) + BigLimb(b, i) + carry) \div Limb)

BigAdd(a, b) == BigAddFrom(a, b, 1, 0)

RECURSIVE BigSubFrom(_, _, _, _)
BigSubFrom(a, b, i, borrow) ==
  IF i > Len(a) THEN <<>>
  ELSE <<(Limb + a[i] - BigLimb(b, i) - borrow) % Limb>>
         \o BigSubFrom(a, b, i + 1, IF a[i] - BigLimb(b, i) - borrow < 0 THEN 1 ELSE 0)

\* a - b for a >= b
BigSub(a, b) == BigTrim(BigSubFrom(a, b, 1, 0))

\* a >= b
BigGeq(a, b) ==
  IF Len(a) # Len(b) THEN Len(a) > Len(b)
  ELSE \A i \in 1..Len(a) : a[i] < b[i] => \E j \in (i + 1)..Len(a) : a[j] > b[j] /\
                                            \A h \in (j + 1)..Len(a) : a[h] = b[h]

\* a * x for a whole number x below 2^15
RECURSIVE BigTimesFrom(_, _, _, _)
BigTimesFrom(a, x, i, carry) ==
  IF i > Len(a) THEN (IF carry = 0 THEN <<>> ELSE <<carry>>)
  ELSE <<(a[i] * x + carry) % Limb>> \o BigTimesFrom(a, x, i + 1, (a[i] * x + carry) \div Limb)

BigTimes(a, x) == IF x = 0 THEN <<>> ELSE BigTimesFrom(a, x, 1, 0)

\* a * 2^k, and the whole part of a / 2^k
BigShl(a, k) ==
  IF a = <<>> THEN <<>>
  ELSE [i \in 1..(k \div LimbBits) |-> 0] \o BigTimes(a, 2^(k % LimbBits))

BigShr(a, k) ==
  BigTrim([i \in 1..(Len(a) - (k \div LimbBits)) |->
             BigLimb(a, i + (k \div LimbBits)) \div 2^(k % LimbBits)
               + (BigLimb(a, i + (k \div LimbBits) + 1) % 2^(k % LimbBits))
                   * 2^(LimbBits - (k % LimbBits))])

\* a times the digits from j on of b
RECURSIVE BigMulFrom(_, _, _)
BigMulFrom(a, b, j) ==
  IF j > Len(b) THEN <<>>
  ELSE BigAdd(BigTimes(a, b[j]), IF BigMulFrom(a, b, j + 1) = <<>> THEN <<>>
                                 ELSE <<0>> \o BigMulFrom(a, b, j + 1))

BigMul(a, b) == BigMulFrom(a, b, 1)

\* one step of long division by d: binary digit i of n is brought down to
\* the remainder, and the quotient gains a digit
BigDivStep(n, d, i, qr) ==
  LET r2 == BigAdd(BigTimes(qr.r, 2), BigOf(BigBit(n, i)))
  IN  IF BigGeq(r2, d) THEN [q |-> BigAdd(BigTimes(qr.q, 2), <<1>>), r |-> BigSub(r2, d)]
      ELSE [q |-> BigTimes(qr.q, 2), r |-> r2]

\* the steps for the binary digits hi, hi-1, ..., lo of n.  Halving the range
\* keeps the evaluation shallow.
RECURSIVE BigDivSteps(_, _, _, _, _)
BigDivSteps(n, d, lo, hi, qr) ==
  IF lo > hi THEN qr
  ELSE IF lo = hi THEN BigDivStep(n, d, lo, qr)
  ELSE LET upper == BigDivSteps(n, d, ((lo + hi) \div 2) + 1, hi, qr)
       IN  InOrder(<<upper, BigDivSteps(n, d, lo, (lo + hi) \div 2, upper)>>)

\* [q, r] with n = q * d + r and r < d
BigDivMod(n, d) == BigDivSteps(n, d, 1, BigLen(n), [q |-> <<>>, r |-> <<>>])

F64Zero == [m |-> <<>>, e |-> 0]

\* n * 2^e (plus a fraction of its last digit when sticky) rounded to a double
F64Round(n, e, sticky) ==
  IF n = <<>> THEN F64Zero
  ELSE IF BigLen(n) <= Precision THEN [m |-> BigShl(n, Precision - BigLen(n)),
                                       e |-> e - (Precision - BigLen(n))]
  ELSE LET drop == BigLen(n) - Precision
           kept == BigShr(n, drop)
           more == sticky \/ \E i \in 1..(drop - 1) : BigBit(n, i) = 1
           up   == BigBit(n, drop) = 1 /\ (more \/ BigBit(kept, 1) = 1)
           m    == IF up THEN BigAdd(kept, <<1>>) ELSE kept
       IN  IF BigLen(m) > Precision THEN [m |-> BigShr(m, 1), e |-> e + drop + 1]
           ELSE [m |-> m, e |-> e + drop]

\* the double of a whole number
F64Of(n) == F64Round(BigOf(n), 0, FALSE)

\* a / b for b # 0: the quotient is taken to 55 or 56 digits, and what is
\* left of the division makes the last digit sticky
F64Div(a, b) ==
  IF a.m = <<>> THEN F64Zero
  ELSE LET qr == BigDivMod(BigShl(a.m, Precision + 2), b.m)
       IN  F64Round(qr.q, a.e - b.e - (Precision + 2), qr.r # <<>>)

F64Mul(a, b) == F64Round(BigMul(a.m, b.m), a.e + b.e, FALSE)

F64Add(a, b) ==
  IF a.m = <<>> THEN b
  ELSE IF b.m = <<>> THEN a
  ELSE IF a.e <= b.e THEN F64Round(BigAdd(a.m, BigShl(b.m, b.e - a.e)), a.e, FALSE)
  ELSE F64Round(BigAdd(BigShl(a.m, a.e - b.e), b.m), b.e, FALSE)

\* a <= b
F64Le(a, b) ==
  IF a.m = <<>> THEN TRUE
  ELSE IF b.m = <<>> THEN FALSE
  ELSE IF a.e <= b.e THEN BigGeq(BigShl(b.m, b.e - a.e), a.m)
  ELSE BigGeq(b.m, BigShl(a.m, a.e - b.e))

\* the double a decimal literal p / q denotes (JSON.parse rounds correctly)
F64Literal(p, q) == F64Div(F64Of(p), F64Of(q))

\* for (const f of pass1.factors) { weightedSum += f.score * f.weight;
\* totalWeight += f.weight; }, from factor i on
RECURSIVE FactorSums(_, _, _, _)
FactorSums(factors, i, weightedSum, totalWeight) ==
  IF i > Len(factors) THEN [weightedSum |-> weightedSum, totalWeight |-> totalWeight]
  ELSE FactorSums(factors, i + 1,
                  F64Add(weightedSum, F64Mul(factors[i].score, factors[i].weight)),
                  F64Add(totalWeight, factors[i].weight))

\* totalWeight > 0 ? weightedSum / totalWeight : 50
avgFactorScoreDouble(factors) ==
  LET sums == FactorSums(factors, 1, F64Zero, F64Zero)
  IN  IF sums.totalWeight.m # <<>> THEN F64Div(sums.weightedSum, sums.totalWeight)
      ELSE F64Of(DefaultFactorScore)

(***************************************************************************)
(* The mean harness: a sanitized factor set is drawn, its weights decimal  *)
(* literals in hundredths from [0, 1] and its scores whole numbers from    *)
(* [0, 100], and the weighted mean is computed as extractFeatures (and     *)
(* pass2_score of the weighted-average variant) compute it.                *)
(***************************************************************************)
MeanWeights == {0, 10, 69, 70}
MeanScores  == {0, 61, 100}

MeanFactors == {[weight |-> w, score |-> sc] : w \in MeanWeights, sc \in MeanScores}

MeanFactorSets ==
  {<<>>} \cup {<<f>> : f \in MeanFactors} \cup {<<f, g>> : f \in MeanFactors, g \in MeanFactors}

\* the factors as the doubles the sanitizer hands on
FactorDoubles(fs) ==
  [i \in 1..Len(fs) |-> [weight |-> F64Literal(fs[i].weight, 100), score |-> F64Of(fs[i].score)]]

InitMean ==
  /\ pc = "m_in"
  /\ sIn \in MeanFactorSets
  /\ sOut = <<>>
  /\ HarnessIdle

HarnessMean ==
  /\ pc = "m_in"
  /\ sOut' = <<avgFactorScoreDouble(FactorDoubles(sIn))>>
  /\ pc' = "m_out"
  /\ UNCHANGED <<req, env, valid, raw, pass1, scoring, expl, response, calls, sIn,
               again, yearly, inFlight, realTimeData, suspended>>

NextMean == HarnessMean

SpecMean == InitMean /\ [][NextMean]_vars

(***************************************************************************)
(* Properties of the factor mean (SpecMean)                                *)
(***************************************************************************)
\* C22: for every sanitized factor set the weighted mean of the factor scores
\* used in scoring (avgFactorScore, resp. rawScore) lies in [0,100] whatever
\* the weights sum to, and is the default 50 when the total weight is 0.
C22_WeightedMean ==
  pc = "m_out" =>
    /\ F64Le(sOut[1], F64Of(100))
    /\ (\A i \in 1..Len(sIn) : sIn[i].weight = 0) => sOut[1] = F64Of(50)

====
